---- MODULE Spec2Model ----
(***************************************************************************)
(* Data preparation and temporal evaluation pipeline of case-ai-analytics: *)
(* the time-based train/test splitter (src/src/data/time_split.py), its    *)
(* two callers (src/src/data/data_processor.py and                         *)
(* src/src/data/enhanced_processor.py) and the synthetic data generator    *)
(* (src/data_generator.py).                                                *)
(*                                                                         *)
(* Dates are day numbers 0..MaxDate.  A table is its number of rows and    *)
(* the values of its date column; a partition of a table is the set of the *)
(* row positions it keeps.  A ratio is a numerator over RatioDen, and a    *)
(* quantile of dates is kept multiplied by RatioDen so that the linear     *)
(* interpolation stays in the integers.                                    *)
(***************************************************************************)
EXTENDS Integers, Sequences, FiniteSets

\* ------------------------------------------------------------- bounds
MaxRows == 4
MaxDate == 3
RatioDen == 5
\* the generator: the most rows asked for (clients, cases and notes together),
\* the days an open date may lie back (the code's two years) and the exclusive
\* upper end of the resolution time (the code's 365)
MaxTotalRows == 4
MaxOpenAge == 1
ResolutionHigh == 3
\* the random generators: the number of their states; the days the clock may
\* advance
RngModulus == 5
MaxClock == 1
\* the feature engineer: the most rows of a raw table, and the largest value
\* of a cell of its numeric column
MaxFeRows == 2
MaxCell == 1
\* the insights: the most rows of a table handed to them
MaxInsightRows == 3
\* the split of preprocess_data: the most rows on either side of the cutoff,
\* and the most rows without an open_date
MaxSideRows == 11
MaxNullRows == 1
\* case_duration: the most rows of the merged table
MaxDurRows == 2
\* resolution_factors: the most rows of the merged table
MaxFactorRows == 4
\* escalation_patterns: the most rows of the table
MaxEscRows == 2
\* predict: a probability is a multiple of 1 / ProbDen
ProbDen == 2
\* fetch_cases: the most records in the API's answer
MaxReplyRows == 3

\* ------------------------------------------------- values of a date cell
\* pandas' missing timestamp: pd.to_datetime maps the cells pandas reads as
\* missing (None, NaN, '', 'NaT') to it without an error
NaT == -1
\* a cell pd.to_datetime cannot interpret
Unparseable == -2
\* Python's None (the splitter's attributes before a split)
None == -3

Days == 0..MaxDate
DateCells == Days \cup {NaT, Unparseable}

\* defaults of TimeBasedSplitter.__init__, also what split_data passes: 0.1
MinSizeNum == 1
MinSizeDen == 10
\* preprocess_data: train_test_split(test_size=0.2)
TestSizeNum == 1
TestSizeDen == 5
\* preprocess_data: pd.Timestamp('2022-07-01'), as a day number of the model
TrainCutoff == 2
\* preprocess_data: len(train_data) < 10 or len(test_data) < 10
MinPartitionRows == 10
\* generate_synthetic_data: np.random.seed(42), Faker.seed(42)
Seed == 42
\* create_features: the labels of pd.cut(df['age'], ...)
AgeGroups == 5

VARIABLES
    df,            \* the caller's table: [has_column, n, dates]
    train_ratio,   \* numerator of the requested train ratio (over RatioDen)
    op,            \* the operation that ran: "none" before any
    validate,      \* the validate argument of split
    split_date,    \* TimeBasedSplitter.split_date, times RatioDen; None; NaT
    train_df,      \* rows of the returned training partition
    test_df,       \* rows of the returned test partition
    outcome,       \* "none", "returned" or the exception raised
    warnings,      \* what validate_split printed under "Warnings:"
    num_clients,   \* arguments of generate_synthetic_data
    num_cases,
    num_notes,
    clients_df,    \* the rows of the clients table built so far
    cases_df,      \* the rows of the cases table built so far
    case_notes_df, \* the rows of the case notes table built so far
    gen_outcome,   \* "idle", "running", "returned" or the exception raised
    np_state,      \* state of numpy's global random generator
    fk_state,      \* state of the random generator all Faker objects share
    clock,         \* the day it is ('today' of Faker's date_between)
    runs,          \* the calls of generate_synthetic_data made so far
    raw,           \* the raw merged input: [cols, rows]
    fe_op,         \* the feature engineer entry point that ran
    fe_outcome,    \* "none", "returned" or the exception raised
    eng_cols,      \* the columns of the engineered table
    target,        \* the target column, NoColumn when there is none
    y,             \* the target value of every row, <<>> when there is none
    features,      \* the columns of X_train and X_test
    cells,         \* resolution_days of the raw cases table, None for no value
    instance,      \* the imputer and the scaler of a DataPreprocessor object
    reruns,        \* the last two runs of the feature engineer on the table
    self_data,     \* the caller's table, which CaseInsights keeps as self.data
    given,         \* that table as it was when the caller handed it over
    ins_op,        \* the last insights operation
    result,        \* what that operation returned or raised
    merged_df,        \* the merged_df table of preprocess_data, as counts of rows by open_date
    cut,           \* the split preprocess_data made of it
    case_rows,     \* open_date and close_date of the rows of the merged table
    dur_op,        \* the entry point that built case_duration
    dur_outcome,   \* "none", "returned" or the exception raised
    case_duration, \* the engineered case_duration of every row
    days_col,      \* resolution_days of the raw merged table, None for an unresolved case
    fac_op,        \* how resolution_factors was reached
    fac_outcome,   \* "none", "returned" or the exception raised
    contributing,  \* the rows that entered the correlations
    correlations,  \* the correlations resolution_factors returned
    age_rows,      \* the age and the escalated flag of every row of self.data
    esc_outcome,   \* "none", "returned" or the exception escalation_patterns raised
    age_group,     \* the age_group column escalation_patterns added
    by_age_group,  \* the returned cross-tabulation by age group
    app_module,    \* the server module that runs: "api" (src/api.py) or "src.api.api"
    disk,          \* the saved files in the working directory
    X_train,       \* the columns of the training matrix, each with its dtype
    started,       \* "no", "yes" once startup_event returned, "failed" if it raised
    model,         \* the global model: NoModel or the model with the names it was fitted on
    feature_mapping,\* the global feature_mapping: feature name to column index
    merged_data,   \* the global merged_data: "None" or where the table came from
    insights_agent,\* the global insights_agent: "None" or where its table came from
    request,       \* the last request handled
    input_data,    \* the vector predict built for the last request
    response,      \* the answer to the last request: [status, detail, body]
    reply,         \* what requests.get does: [raises, status_code, data]
    dash_op,       \* "none", then the dashboard function that ran
    fetched        \* what fetch_cases returned: [kind, source, n, open_date]

splitVars == <<df, train_ratio, op, validate, split_date, train_df, test_df,
               outcome, warnings>>

genVars == <<num_clients, num_cases, num_notes, clients_df, cases_df,
             case_notes_df, gen_outcome>>

seedVars == <<np_state, fk_state, clock, runs>>

feVars == <<raw, fe_op, fe_outcome, eng_cols, target, y, features>>

rerunVars == <<cells, instance, reruns>>

insightVars == <<self_data, given, ins_op, result>>

cutVars == <<merged_df, cut>>

durVars == <<case_rows, dur_op, dur_outcome, case_duration>>

facVars == <<days_col, fac_op, fac_outcome, contributing, correlations>>

escVars == <<age_rows, esc_outcome, age_group, by_age_group>>

apiVars == <<app_module, disk, X_train, started, model, feature_mapping,
             merged_data, insights_agent, request, input_data, response>>

dashVars == <<reply, dash_op, fetched>>

\* the variables of the stages other than the splitter and the generator
laterVars == <<seedVars, feVars, rerunVars, insightVars, cutVars, durVars,
               facVars, escVars, apiVars, dashVars>>

vars == <<splitVars, genVars, laterVars>>

\* what the actions of one stage leave alone: the variables of the others
seedFrame == <<splitVars, genVars, feVars, rerunVars, insightVars, cutVars,
               durVars, facVars, escVars, apiVars, dashVars>>

feFrame == <<splitVars, genVars, seedVars, rerunVars, insightVars, cutVars,
             durVars, facVars, escVars, apiVars, dashVars>>

rerunFrame == <<splitVars, genVars, seedVars, feVars, insightVars, cutVars,
                durVars, facVars, escVars, apiVars, dashVars>>

insightFrame == <<splitVars, genVars, seedVars, feVars, rerunVars, cutVars,
                  durVars, facVars, escVars, apiVars, dashVars>>

cutFrame == <<splitVars, genVars, seedVars, feVars, rerunVars, insightVars,
              durVars, facVars, escVars, apiVars, dashVars>>

durFrame == <<splitVars, genVars, seedVars, feVars, rerunVars, insightVars,
              cutVars, facVars, escVars, apiVars, dashVars>>

facFrame == <<splitVars, genVars, seedVars, feVars, rerunVars, insightVars,
              cutVars, durVars, escVars, apiVars, dashVars>>

escFrame == <<splitVars, genVars, seedVars, feVars, rerunVars, insightVars,
              cutVars, durVars, facVars, apiVars, dashVars>>

apiFrame == <<splitVars, genVars, seedVars, feVars, rerunVars, insightVars,
              cutVars, durVars, facVars, escVars, dashVars>>

dashFrame == <<splitVars, genVars, seedVars, feVars, rerunVars, insightVars,
               cutVars, durVars, facVars, escVars, apiVars>>

\* nothing of a stage has run
SplitIdle ==
    /\ df = [has_column |-> FALSE, n |-> 0, dates |-> <<>>]
    /\ train_ratio = 1
    /\ op = "idle"
    /\ validate = FALSE
    /\ split_date = None
    /\ train_df = {}
    /\ test_df = {}
    /\ outcome = "none"
    /\ warnings = {}

GenIdle ==
    /\ num_clients = 0
    /\ num_cases = 0
    /\ num_notes = 0
    /\ clients_df = <<>>
    /\ cases_df = <<>>
    /\ case_notes_df = <<>>
    /\ gen_outcome = "idle"

SeedIdle ==
    /\ np_state = 0
    /\ fk_state = 0
    /\ clock = 0
    /\ runs = <<>>

\* no column at all (where Python has None for a column name)
NoColumn == [base |-> "", level |-> 0]

FeIdle ==
    /\ raw = [cols |-> {}, rows |-> <<>>]
    /\ fe_op = "idle"
    /\ fe_outcome = "none"
    /\ eng_cols = {}
    /\ target = NoColumn
    /\ y = <<>>
    /\ features = {}

\* SimpleImputer(strategy='median') and StandardScaler() before any fit
Unfitted ==
    [imputer_fitted |-> FALSE, median |-> 0,
     scaler_fitted |-> FALSE, sum |-> 0, n |-> 0]

RerunIdle ==
    /\ cells = <<>>
    /\ instance = Unfitted
    /\ reruns = <<>>

\* nothing returned or raised yet
NoResult == [kind |-> "none", names |-> {}, metrics |-> <<>>]

InsightIdle ==
    /\ self_data = [cols |-> {}, rows |-> <<>>]
    /\ given = [cols |-> {}, rows |-> <<>>]
    /\ ins_op = "idle"
    /\ result = NoResult

\* a table as the number of its rows with an open_date before the cutoff, on
\* or after it, and without one
NoRows == [before |-> 0, after |-> 0, null |-> 0]

CutIdle ==
    /\ merged_df = NoRows
    /\ cut = [outcome |-> "idle", train |-> NoRows, test |-> NoRows]

DurIdle ==
    /\ case_rows = <<>>
    /\ dur_op = "idle"
    /\ dur_outcome = "none"
    /\ case_duration = <<>>

FacIdle ==
    /\ days_col = <<>>
    /\ fac_op = "idle"
    /\ fac_outcome = "none"
    /\ contributing = {}
    /\ correlations = <<>>

EscIdle ==
    /\ age_rows = <<>>
    /\ esc_outcome = "idle"
    /\ age_group = <<>>
    /\ by_age_group = <<>>

\* model = None
NoModel == [loaded |-> FALSE, feature_names_in_ |-> <<>>]

\* feature_mapping = {}
EmptyMapping == [name \in {} |-> 0]

\* no request handled yet, nothing answered yet
NoRequest == [endpoint |-> "none"]

\* a response without a body
NoBody == [field \in {} |-> 0]

NoResponse == [status |-> 0, detail |-> <<>>, body |-> NoBody]

ApiIdle ==
    /\ app_module = "idle"
    /\ disk = {}
    /\ X_train = <<>>
    /\ started = "no"
    /\ model = NoModel
    /\ feature_mapping = EmptyMapping
    /\ merged_data = "None"
    /\ insights_agent = "None"
    /\ request = NoRequest
    /\ input_data = <<>>
    /\ response = NoResponse

\* nothing returned yet
NotFetched == [kind |-> "none", source |-> "none", n |-> 0, open_date |-> <<>>]

DashIdle ==
    /\ reply = [raises |-> FALSE, status_code |-> 0, data |-> <<>>]
    /\ dash_op = "idle"
    /\ fetched = NotFetched

LaterIdle == SeedIdle /\ FeIdle /\ RerunIdle /\ InsightIdle /\ CutIdle /\ DurIdle /\ FacIdle /\ EscIdle /\ ApiIdle /\ DashIdle

\* ------------------------------------------------------------ helpers
CeilDiv(a, b) == (a + b - 1) \div b

RECURSIVE Insert(_, _)
Insert(x, s) ==
    IF s = <<>> THEN <<x>>
    ELSE IF x <= Head(s) THEN <<x>> \o s
    ELSE <<Head(s)>> \o Insert(x, Tail(s))

RECURSIVE SortSeq(_)
SortSeq(s) == IF s = <<>> THEN <<>> ELSE Insert(Head(s), SortSeq(Tail(s)))

\* the non-null values of a date column, in row order (quantile, min and max
\* skip NaT)
RECURSIVE DropNaT(_)
DropNaT(s) ==
    IF s = <<>> THEN <<>>
    ELSE IF Head(s) = NaT THEN DropNaT(Tail(s))
    ELSE <<Head(s)>> \o DropNaT(Tail(s))

\* ------------------------------------------------- TimeBasedSplitter
\* validate_dates with errors='coerce': an unparseable cell becomes NaT
ValidateDatesCoerce(dates) ==
    [ok |-> TRUE,
     dates |-> [i \in DOMAIN dates |->
                  IF dates[i] = Unparseable THEN NaT ELSE dates[i]]]

\* validate_dates: pd.to_datetime raises on a cell it cannot interpret and the
\* except clause re-raises ValueError; None cells become NaT
ValidateDates(dates) ==
    IF \E i \in DOMAIN dates : dates[i] = Unparseable
    THEN [ok |-> FALSE, dates |-> <<>>]
    ELSE [ok |-> TRUE, dates |-> dates]

\* analyze_time_distribution: min and max skip NaT and are NaT when nothing
\* is left
AnalyzeTimeDistribution(dates) ==
    LET v == SortSeq(DropNaT(dates))
    IN  [min_date |-> IF v = <<>> THEN NaT ELSE v[1],
         max_date |-> IF v = <<>> THEN NaT ELSE v[Len(v)],
         total_records |-> Len(dates),
         unique_dates |-> Cardinality({v[i] : i \in DOMAIN v})]

\* the quantile taken at the test share 1 - q instead of the train share q
QuantileAtTestShare(dates, num) ==
    LET v  == SortSeq(DropNaT(dates))
        n  == Len(v)
        h  == (n - 1) * (RatioDen - num)
        lo == h \div RatioDen + 1
        fr == h % RatioDen
    IN  IF n = 0 THEN NaT
        ELSE IF fr = 0 THEN v[lo] * RatioDen
        ELSE v[lo] * RatioDen + fr * (v[lo + 1] - v[lo])

\* Series.quantile(q) with the default linear interpolation, times RatioDen:
\* position h = (n-1)*q in the sorted non-null values, the value at floor(h)
\* plus the fraction of h times the step to the next value; NaT when there is
\* no non-null value
Quantile(dates, num) ==
    LET v  == SortSeq(DropNaT(dates))
        n  == Len(v)
        h  == (n - 1) * num
        lo == h \div RatioDen + 1
        fr == h % RatioDen
    IN  IF n = 0 THEN NaT
        ELSE IF fr = 0 THEN v[lo] * RatioDen
        ELSE v[lo] * RatioDen + fr * (v[lo + 1] - v[lo])

\* df[date_column] <= split_date: a row on the split date goes to training too
TrainMaskInclusive(dates, s) ==
    {i \in DOMAIN dates : dates[i] # NaT /\ s # NaT /\ dates[i] * RatioDen <= s}

\* df[df[date_column] < self.split_date]: a comparison with NaT is False
TrainMask(dates, s) ==
    {i \in DOMAIN dates : dates[i] # NaT /\ s # NaT /\ dates[i] * RatioDen < s}

\* df[date_column] > split_date: a row on the split date is left out
TestMaskExclusive(dates, s) ==
    {i \in DOMAIN dates : dates[i] # NaT /\ s # NaT /\ dates[i] * RatioDen > s}

\* df[df[date_column] >= self.split_date]
TestMask(dates, s) ==
    {i \in DOMAIN dates : dates[i] # NaT /\ s # NaT /\ dates[i] * RatioDen >= s}

\* validate_split: the two fractions against the minimum sizes; the division
\* raises ZeroDivisionError when both partitions are empty
ValidateSplit(ntrain, ntest) ==
    LET total == ntrain + ntest
    IN  IF total = 0 THEN [error |-> TRUE, warnings |-> {}]
        ELSE [error |-> FALSE,
              warnings |->
                  {w \in {"Training set too small", "Testing set too small"} :
                     \/ /\ w = "Training set too small"
                        /\ ntrain * MinSizeDen < MinSizeNum * total
                     \/ /\ w = "Testing set too small"
                        /\ ntest * MinSizeDen < MinSizeNum * total}]

Raised(exc, s) ==
    [outcome |-> exc, split_date |-> s, train |-> {}, test |-> {},
     warnings |-> {}]

\* TimeBasedSplitter.split(df, 'open_date', validate)
SplitResult(t, num, val) ==
    IF ~t.has_column THEN Raised("ValueError", None)
    ELSE
    LET vd == ValidateDates(t.dates)
    IN  IF ~vd.ok THEN Raised("ValueError", None)
        ELSE
        LET stats == AnalyzeTimeDistribution(vd.dates)
            s     == Quantile(vd.dates, num)
            tr    == TrainMask(vd.dates, s)
            te    == TestMask(vd.dates, s)
            v     == ValidateSplit(Cardinality(tr), Cardinality(te))
        IN  \* stats['min_date'].date(): NaT.date() raises ValueError
            IF stats.min_date = NaT THEN Raised("ValueError", None)
            ELSE IF val /\ v.error THEN Raised("ZeroDivisionError", s)
            ELSE [outcome |-> "returned", split_date |-> s, train |-> tr,
                  test |-> te, warnings |-> IF val THEN v.warnings ELSE {}]

\* ------------------------------------------------------------ tables
TablesWithDates ==
    UNION {{[has_column |-> TRUE, n |-> k, dates |-> d] :
              d \in [1..k -> DateCells]} : k \in 0..MaxRows}

TablesWithoutDates ==
    {[has_column |-> FALSE, n |-> k, dates |-> <<>>] : k \in 0..MaxRows}

Tables == TablesWithDates \cup TablesWithoutDates

InitSplit ==
    /\ df \in Tables
    /\ train_ratio \in 1..(RatioDen - 1)
    /\ op = "none"
    /\ validate = FALSE
    /\ split_date = None
    /\ train_df = {}
    /\ test_df = {}
    /\ outcome = "none"
    /\ warnings = {}
    /\ num_clients = 0
    /\ num_cases = 0
    /\ num_notes = 0
    /\ clients_df = <<>>
    /\ cases_df = <<>>
    /\ case_notes_df = <<>>
    /\ gen_outcome = "idle"
    /\ LaterIdle

\* a direct call of TimeBasedSplitter(train_ratio).split(df, validate=val)
Split(val) ==
    /\ op = "none"
    /\ LET r == SplitResult(df, train_ratio, val)
       IN  /\ split_date' = r.split_date
           /\ train_df' = r.train
           /\ test_df' = r.test
           /\ outcome' = r.outcome
           /\ warnings' = r.warnings
    /\ op' = "split"
    /\ validate' = val
    /\ UNCHANGED <<df, train_ratio, genVars, laterVars>>

\* sklearn's train_test_split(merged_df, test_size=0.2, random_state=42):
\* n_test = ceil(test_size * n) rows go to the test partition, the remaining
\* rows to training, and ValueError when that leaves the training partition
\* empty; which rows is decided by the shuffle
TrainTestSplit(n) ==
    LET ntest == CeilDiv(TestSizeNum * n, TestSizeDen)
    IN  IF n - ntest <= 0 THEN {Raised("ValueError", None)}
        ELSE {[outcome |-> "returned", split_date |-> None,
               train |-> (1..n) \ te, test |-> te, warnings |-> {}] :
                 te \in {x \in SUBSET (1..n) : Cardinality(x) = ntest}}

\* the rows and dates part of preprocess_data: pd.to_datetime of the date
\* columns, the split at the fixed cutoff, and the random split when either
\* side has fewer than MinPartitionRows rows (every table of fewer than
\* 2 * MinPartitionRows rows, so every table within MaxRows)
PreprocessDataResults(t) ==
    IF ~t.has_column THEN {Raised("KeyError", None)}
    ELSE IF \E i \in DOMAIN t.dates : t.dates[i] = Unparseable
    THEN {Raised("ValueError", None)}
    ELSE
    LET tr == {i \in DOMAIN t.dates :
                 t.dates[i] # NaT /\ t.dates[i] < TrainCutoff}
        te == {i \in DOMAIN t.dates :
                 t.dates[i] # NaT /\ t.dates[i] >= TrainCutoff}
    IN  IF Cardinality(tr) < MinPartitionRows
           \/ Cardinality(te) < MinPartitionRows
        THEN TrainTestSplit(t.n)
        ELSE {[outcome |-> "returned", split_date |-> None, train |-> tr,
               test |-> te, warnings |-> {}]}

\* preprocess_data(clients_df, cases_df), df being the merged table
PreprocessData ==
    /\ op = "none"
    /\ \E r \in PreprocessDataResults(df) :
           /\ split_date' = r.split_date
           /\ train_df' = r.train
           /\ test_df' = r.test
           /\ outcome' = r.outcome
           /\ warnings' = r.warnings
    /\ op' = "preprocess_data"
    /\ UNCHANGED <<df, train_ratio, validate, genVars, laterVars>>

\* DataPreprocessor.split_data(df, test_size = 1 - train_ratio): a splitter
\* with train_ratio = 1 - test_size, its split with the default validate=True,
\* plot_distribution (which changes nothing here), and the two partitions as
\* they came back from the splitter
SplitData ==
    /\ op = "none"
    /\ LET test_size == RatioDen - train_ratio
           r == SplitResult(df, RatioDen - test_size, TRUE)
       IN  /\ split_date' = r.split_date
           /\ train_df' = r.train
           /\ test_df' = r.test
           /\ outcome' = r.outcome
           /\ warnings' = r.warnings
    /\ op' = "split_data"
    /\ validate' = TRUE
    /\ UNCHANGED <<df, train_ratio, genVars, laterVars>>

NextSplit ==
    \/ \E val \in BOOLEAN : Split(val)
    \/ SplitData
    \/ PreprocessData

SpecSplit == InitSplit /\ [][NextSplit]_vars

\* ------------------------------------------- claims on the splitter
\* the rows whose date cell holds a date
DatedRows == {i \in DOMAIN df.dates : df.dates[i] \in Days}

\* a is the k-th smallest of the dates of the table, counted with repeats
IsOrderStat(a, k) ==
    /\ Cardinality({i \in DatedRows : df.dates[i] < a}) < k
    /\ k <= Cardinality({i \in DatedRows : df.dates[i] <= a})

SplitterReturned ==
    /\ op \in {"split", "split_data"}
    /\ outcome = "returned"

AllRowsDated == df.has_column /\ DatedRows = 1..df.n

DatesDistinct ==
    \A i, j \in DatedRows : i # j => df.dates[i] # df.dates[j]

\* the share of the training partition is within 5 percentage points plus
\* one row's share of the requested ratio
TrainShareNearRatio(ratio) ==
    LET t == Cardinality(train_df)
        d == 100 * RatioDen * t - 100 * ratio * df.n
    IN  /\ d <= 5 * df.n * RatioDen + 100 * RatioDen
        /\ -d <= 5 * df.n * RatioDen + 100 * RatioDen

\* C1: after TimeBasedSplitter.split the stored split_date is the
\* train_ratio-quantile of the date column (linear interpolation between the
\* order statistics around position (n-1)*train_ratio), every training row
\* has a date strictly before split_date and every test row a date on or
\* after it.
C1_SplitAtQuantile ==
    SplitterReturned =>
        LET n  == Cardinality(DatedRows)
            h  == (n - 1) * train_ratio
            k  == h \div RatioDen + 1
            fr == h % RatioDen
        IN  /\ \E a, b \in Days :
                  /\ IsOrderStat(a, k)
                  /\ IsOrderStat(b, IF fr = 0 THEN k ELSE k + 1)
                  /\ split_date = a * RatioDen + fr * (b - a)
            /\ \A i \in train_df :
                  df.dates[i] \in Days /\ df.dates[i] * RatioDen < split_date
            /\ \A i \in test_df :
                  df.dates[i] \in Days /\ df.dates[i] * RatioDen >= split_date

\* a split whose split date fell between two dates and left rows on both sides
C1_Witness ==
    /\ SplitterReturned
    /\ split_date % RatioDen # 0
    /\ train_df # {}
    /\ test_df # {}

\* C2: the two partitions split returns are disjoint and together hold every
\* row of the input table, null dates included.
C2_PartitionCoversInput ==
    (SplitterReturned /\ op = "split") =>
        /\ train_df \cap test_df = {}
        /\ train_df \cup test_df = 1..df.n

\* C3 as stated: for every non-empty table of parseable dates, however they
\* are distributed, the training share is within 5 points plus one row's
\* share of train_ratio.
C3_TrainShareAnyDistribution ==
    (SplitterReturned /\ AllRowsDated /\ df.n >= 1) =>
        TrainShareNearRatio(train_ratio)

\* C3 amended: the training share never exceeds train_ratio by more than 5
\* points plus one row's share, and it is within that distance of
\* train_ratio when no two rows share a date.
C3_TrainShareDistinctDates ==
    (SplitterReturned /\ AllRowsDated /\ df.n >= 1) =>
        LET t == Cardinality(train_df)
        IN  /\ 100 * RatioDen * t - 100 * train_ratio * df.n
                  <= 5 * df.n * RatioDen + 100 * RatioDen
            /\ DatesDistinct => TrainShareNearRatio(train_ratio)

\* a table of at least three rows, all on different dates, was split
C3_Witness ==
    /\ SplitterReturned
    /\ AllRowsDated
    /\ DatesDistinct
    /\ df.n >= 3
    /\ train_df # {}

\* C4: when all rows share one date, each caller of the temporal split ends
\* with two non-empty partitions whose sizes respect the requested ratio
\* (0.8 for preprocess_data, 1 - test_size for split_data); the tolerance is
\* read as 5 points plus the rounding to a whole row, and only tables of two
\* or more rows are asked to give two non-empty partitions.
C4_FallbackOnSingleDate ==
    (/\ op \in {"preprocess_data", "split_data"}
     /\ AllRowsDated
     /\ df.n >= 2
     /\ \A i, j \in DatedRows : df.dates[i] = df.dates[j]) =>
        /\ outcome = "returned"
        /\ train_df # {}
        /\ test_df # {}
        /\ TrainShareNearRatio(IF op = "split_data" THEN train_ratio
                               ELSE RatioDen - (TestSizeNum * RatioDen) \div TestSizeDen)

\* C5: split with validate=True returns the partitions for every table whose
\* date column holds only dates, the empty table included.
C5_ValidateNeverAborts ==
    (op = "split" /\ validate /\ AllRowsDated) => outcome = "returned"

\* C6: a date column with a value that cannot be read as a date makes split
\* fail with ValueError; nothing is returned and nothing is stored.
C6_UnparseableDateFails ==
    (/\ op \in {"split", "split_data"}
     /\ df.has_column
     /\ \E i \in DOMAIN df.dates : df.dates[i] = Unparseable) =>
        /\ outcome = "ValueError"
        /\ train_df = {}
        /\ test_df = {}
        /\ split_date = None

\* split failed on a table that holds both a date and an unreadable value
C6_Witness ==
    /\ op = "split"
    /\ outcome = "ValueError"
    /\ \E i \in DOMAIN df.dates : df.dates[i] = Unparseable
    /\ DatedRows # {}

\* the rows with the latest and with the earliest date of the table
LatestRows == {i \in DatedRows : \A j \in DatedRows : df.dates[j] <= df.dates[i]}

EarliestRows == {i \in DatedRows : \A j \in DatedRows : df.dates[i] <= df.dates[j]}

\* C30: for a non-empty table whose rows all have a date, split (with any
\* train_ratio strictly between 0 and 1) returns a test partition that holds
\* every row with the latest date, so it is not empty, and a training
\* partition that is empty whenever the split date equals the earliest date.
C30_TestNeverEmpty ==
    (op \in {"split", "split_data"} /\ AllRowsDated /\ df.n >= 1) =>
        /\ outcome = "returned"
        /\ LatestRows \subseteq test_df
        /\ test_df # {}
        /\ (\E i \in EarliestRows : split_date = df.dates[i] * RatioDen) =>
               train_df = {}

\* a table with two different dates was split at its earliest date: the
\* training partition is empty and every row is in the test partition
C30_Witness ==
    /\ SplitterReturned
    /\ AllRowsDated
    /\ \E i, j \in DatedRows : df.dates[i] # df.dates[j]
    /\ \E i \in EarliestRows : split_date = df.dates[i] * RatioDen
    /\ train_df = {}
    /\ test_df = 1..df.n

\* ------------------------------------------------ generate_synthetic_data
\* the day generate_synthetic_data runs on ('today'), as a day number
Today == MaxOpenAge

\* Faker.date_between(start_date, end_date): any date from start to end
DateBetween(start, end) == start..end

\* np.random.randint(low, high): any integer from low to high - 1; ValueError
\* when there is none
RandInt(low, high) == low..(high - 1)

\* the close date a resolution_days before the open date
ResolutionDateBefore(open_date, resolution_days) == open_date - resolution_days

\* resolution_date = open_date_dt + timedelta(days=resolution_days)
ResolutionDate(open_date, resolution_days) == open_date + resolution_days

\* the status drawn from the whole statuses list, resolved or not
StatusChoicesAny(is_resolved) ==
    {"Resolved", "Pending", "Appealed", "Abandoned"}

\* np.random.choice(['Resolved', 'Appealed']) for a resolved case,
\* np.random.choice(['Pending', 'Abandoned']) otherwise
StatusChoices(is_resolved) ==
    IF is_resolved THEN {"Resolved", "Appealed"} ELSE {"Pending", "Abandoned"}

\* the client of a case drawn with the upper end included
ClientIdChoicesInclusive(n) == 0..n

\* 'client_id': np.random.randint(0, num_clients)
ClientIdChoices(n) == RandInt(0, n)

\* the note date drawn like an open date, not from the window of its case
NoteDateChoicesAnyRecent(case_data) == DateBetween(Today - MaxOpenAge, Today)

\* the note date: between the case's open date and its close date, or today
\* when the case has no close date
NoteDateChoices(case_data) ==
    IF case_data.close_date # None
    THEN DateBetween(case_data.open_date, case_data.close_date)
    ELSE DateBetween(case_data.open_date, Today)

\* cases_df.loc[cases_df['case_id'] == case_id].iloc[0]
CaseData(case_id) ==
    cases_df[CHOOSE k \in DOMAIN cases_df : cases_df[k].case_id = case_id]

InitGen ==
    /\ num_clients \in 0..MaxTotalRows
    /\ num_cases \in 0..MaxTotalRows
    /\ num_notes \in 0..MaxTotalRows
    /\ num_clients + num_cases + num_notes <= MaxTotalRows
    /\ clients_df = <<>>
    /\ cases_df = <<>>
    /\ case_notes_df = <<>>
    /\ gen_outcome = "running"
    /\ df = [has_column |-> FALSE, n |-> 0, dates |-> <<>>]
    /\ train_ratio = 1
    /\ op = "idle"
    /\ validate = FALSE
    /\ split_date = None
    /\ train_df = {}
    /\ test_df = {}
    /\ outcome = "none"
    /\ warnings = {}
    /\ LaterIdle

\* one pass of the clients loop: client_id is the loop index
GenerateClient ==
    /\ gen_outcome = "running"
    /\ Len(clients_df) < num_clients
    /\ clients_df' = Append(clients_df, [client_id |-> Len(clients_df)])
    /\ UNCHANGED <<num_clients, num_cases, num_notes, cases_df, case_notes_df,
                   gen_outcome, splitVars, laterVars>>

\* one pass of the cases loop
GenerateCase ==
    /\ gen_outcome = "running"
    /\ Len(clients_df) = num_clients
    /\ Len(cases_df) < num_cases
    /\ IF ClientIdChoices(num_clients) = {}
       THEN /\ gen_outcome' = "ValueError"
            /\ UNCHANGED cases_df
       ELSE /\ \E open_date \in DateBetween(Today - MaxOpenAge, Today),
                  is_resolved \in BOOLEAN,
                  days \in RandInt(1, ResolutionHigh),
                  client \in ClientIdChoices(num_clients) :
                  \E status \in StatusChoices(is_resolved) :
                     cases_df' = Append(cases_df,
                        [case_id |-> Len(cases_df),
                         client_id |-> client,
                         open_date |-> open_date,
                         close_date |->
                            IF is_resolved
                            THEN ResolutionDate(open_date, days) ELSE None,
                         resolution_days |->
                            IF is_resolved THEN days ELSE None,
                         status |-> status])
            /\ UNCHANGED gen_outcome
    /\ UNCHANGED <<num_clients, num_cases, num_notes, clients_df,
                   case_notes_df, splitVars, laterVars>>

\* one pass of the case notes loop
GenerateNote ==
    /\ gen_outcome = "running"
    /\ Len(clients_df) = num_clients
    /\ Len(cases_df) = num_cases
    /\ Len(case_notes_df) < num_notes
    /\ IF RandInt(0, num_cases) = {}
       THEN /\ gen_outcome' = "ValueError"
            /\ UNCHANGED case_notes_df
       ELSE /\ \E case_id \in RandInt(0, num_cases) :
                  \E note_date \in NoteDateChoices(CaseData(case_id)) :
                     case_notes_df' = Append(case_notes_df,
                        [note_id |-> Len(case_notes_df),
                         case_id |-> case_id,
                         note_date |-> note_date])
            /\ UNCHANGED gen_outcome
    /\ UNCHANGED <<num_clients, num_cases, num_notes, clients_df, cases_df,
                   splitVars, laterVars>>

\* return clients_df, cases_df, case_notes_df
GenerateReturn ==
    /\ gen_outcome = "running"
    /\ Len(clients_df) = num_clients
    /\ Len(cases_df) = num_cases
    /\ Len(case_notes_df) = num_notes
    /\ gen_outcome' = "returned"
    /\ UNCHANGED <<num_clients, num_cases, num_notes, clients_df, cases_df,
                   case_notes_df, splitVars, laterVars>>

NextGen ==
    \/ GenerateClient
    \/ GenerateCase
    \/ GenerateNote
    \/ GenerateReturn

SpecGen == InitGen /\ [][NextGen]_vars

\* ----------------------------------------- claims on the generator
CaseRows == {cases_df[k] : k \in DOMAIN cases_df}

NoteRows == {case_notes_df[k] : k \in DOMAIN case_notes_df}

ClientIds == {clients_df[k].client_id : k \in DOMAIN clients_df}

CaseIds == {cases_df[k].case_id : k \in DOMAIN cases_df}

NoteIds == {case_notes_df[k].note_id : k \in DOMAIN case_notes_df}

\* C7: every generated case row with a close date has close_date >= open_date
\* and resolution_days equal to the days from open_date to close_date.
C7_CloseAfterOpen ==
    \A c \in CaseRows :
        c.close_date # None =>
            /\ c.close_date >= c.open_date
            /\ c.resolution_days = c.close_date - c.open_date

\* the tables were returned with a closed case in them
C7_Witness ==
    /\ gen_outcome = "returned"
    /\ \E c \in CaseRows : c.close_date # None /\ c.resolution_days > 1

\* C8: in every generated case row resolution_days is null exactly when
\* close_date is null, the status is Resolved or Appealed exactly when they
\* are not null, and Pending or Abandoned exactly when they are.
C8_StatusMatchesResolution ==
    \A c \in CaseRows :
        /\ (c.resolution_days = None) <=> (c.close_date = None)
        /\ (c.status \in {"Resolved", "Appealed"}) <=> (c.close_date # None)
        /\ (c.status \in {"Pending", "Abandoned"}) <=> (c.close_date = None)

\* the tables were returned with a closed and an open case in them
C8_Witness ==
    /\ gen_outcome = "returned"
    /\ \E c, d \in CaseRows :
          /\ c.status = "Appealed" /\ c.close_date # None
          /\ d.status = "Pending" /\ d.close_date = None

\* C9: every generated note row has a note_date from the open_date of the
\* case it references to that case's close_date, or to today when the case
\* has no close_date.
C9_NoteWithinCase ==
    \A x \in NoteRows :
        \A c \in CaseRows :
            c.case_id = x.case_id =>
                /\ c.open_date <= x.note_date
                /\ x.note_date <= (IF c.close_date # None
                                   THEN c.close_date ELSE Today)

\* the tables were returned with a note dated on the close date of its case,
\* a close date that lies after today
C9_Witness ==
    /\ gen_outcome = "returned"
    /\ \E x \in NoteRows :
          /\ CaseData(x.case_id).close_date # None
          /\ x.note_date = CaseData(x.case_id).close_date
          /\ x.note_date > Today

\* C10: client_id, case_id and note_id are unique keys of their tables, every
\* case's client_id is the id of a client of the clients table and every
\* note's case_id is the id of a case of the cases table.
C10_KeysAndReferences ==
    /\ Cardinality(ClientIds) = Len(clients_df)
    /\ Cardinality(CaseIds) = Len(cases_df)
    /\ Cardinality(NoteIds) = Len(case_notes_df)
    /\ \A c \in CaseRows : c.client_id \in ClientIds
    /\ \A x \in NoteRows : x.case_id \in CaseIds

\* the tables were returned for positive counts, with two cases in them
C10_Witness ==
    /\ gen_outcome = "returned"
    /\ num_clients >= 1
    /\ num_cases >= 2
    /\ num_notes >= 1
    /\ Len(cases_df) = num_cases
    /\ Len(case_notes_df) = num_notes

\* a count of the call is zero or negative
NonPositiveCount == num_clients <= 0 \/ num_cases <= 0 \/ num_notes <= 0

\* C12: a call with num_clients, num_cases or num_notes less than or equal to
\* 0 fails with an error and returns no tables; in particular it never
\* returns an empty table.
C12_NonPositiveCountFails ==
    (gen_outcome # "running" /\ NonPositiveCount) =>
        /\ gen_outcome = "ValueError"
        /\ gen_outcome # "returned"

\* ------------------------------- generate_synthetic_data, call after call
\* The random generators are deterministic: a state, a value read off the
\* state by each draw, and the next state.  np.random.seed(42) and
\* Faker.seed(42) put both generators into the state of the seed.
NextState(s) == (3 * s + 1) % RngModulus

SeedState(seed) == seed % RngModulus

\* np.random.randint(low, high) in state s (low < high)
DrawBelow(s, low, high) == low + (s % (high - low))

\* fake.date_between(start, end) in state s: a date from start to end
DrawBetween(s, start, end) == start + (s % (end - start + 1))

\* np.random.choice(list) in state s
DrawChoice(s, list) == list[(s % Len(list)) + 1]

\* the clients loop from generator states st on the day `day`:
\* 'join_date': fake.date_between(start_date='-5y', end_date='today')
RECURSIVE SeededClients(_, _, _)
SeededClients(n, st, day) ==
    IF Len(st.rows) >= n THEN st
    ELSE SeededClients(n,
            [np |-> st.np, fk |-> NextState(st.fk), error |-> FALSE,
             rows |-> Append(st.rows,
                [client_id |-> Len(st.rows),
                 join_date |-> DrawBetween(st.fk, day - MaxOpenAge, day)])],
            day)

\* the cases loop: open_date from Faker relative to today, then is_resolved
\* (np.random.random() < 0.7), resolution_days, status and client_id from
\* numpy in the order of the code
RECURSIVE SeededCases(_, _, _, _)
SeededCases(n, nclients, st, day) ==
    IF st.error \/ Len(st.rows) >= n THEN st
    ELSE IF nclients <= 0 THEN [st EXCEPT !.error = TRUE]
    ELSE
    LET open_date == DrawBetween(st.fk, day - MaxOpenAge, day)
        is_resolved == DrawChoice(st.np, <<TRUE, FALSE>>)
        np1 == NextState(st.np)
        days == DrawBelow(np1, 1, ResolutionHigh)
        np2 == IF is_resolved THEN NextState(np1) ELSE np1
        status == DrawChoice(np2, IF is_resolved
                                  THEN <<"Resolved", "Appealed">>
                                  ELSE <<"Pending", "Abandoned">>)
        np3 == NextState(np2)
        client == DrawBelow(np3, 0, nclients)
    IN  SeededCases(n, nclients,
            [np |-> NextState(np3), fk |-> NextState(st.fk), error |-> FALSE,
             rows |-> Append(st.rows,
                [case_id |-> Len(st.rows),
                 client_id |-> client,
                 open_date |-> open_date,
                 close_date |-> IF is_resolved
                                THEN ResolutionDate(open_date, days)
                                ELSE None,
                 resolution_days |-> IF is_resolved THEN days ELSE None,
                 status |-> status])],
            day)

\* the case notes loop: case_id from numpy, note_date from Faker, between the
\* case's open date and its close date or today
RECURSIVE SeededNotes(_, _, _, _)
SeededNotes(n, cases, st, day) ==
    IF st.error \/ Len(st.rows) >= n THEN st
    ELSE IF Len(cases) <= 0 THEN [st EXCEPT !.error = TRUE]
    ELSE
    LET case_id == DrawBelow(st.np, 0, Len(cases))
        case_data == cases[case_id + 1]
        end == IF case_data.close_date # None
               THEN case_data.close_date ELSE day
    IN  SeededNotes(n, cases,
            [np |-> NextState(st.np), fk |-> NextState(st.fk),
             error |-> FALSE,
             rows |-> Append(st.rows,
                [note_id |-> Len(st.rows),
                 case_id |-> case_id,
                 note_date |->
                    DrawBetween(st.fk, case_data.open_date, end)])],
            day)

\* generate_synthetic_data(c, k, n) on the day `day`: what it returns and the
\* generator states it leaves behind
SeededGenerate(c, k, n, day) ==
    LET s0 == [np |-> SeedState(Seed), fk |-> SeedState(Seed),
               error |-> FALSE, rows |-> <<>>]
        cl == SeededClients(c, s0, day)
        ca == SeededCases(k, c, [cl EXCEPT !.rows = <<>>], day)
        no == SeededNotes(n, ca.rows, [ca EXCEPT !.rows = <<>>], day)
    IN  [np |-> no.np, fk |-> no.fk,
         outcome |-> IF no.error THEN "ValueError" ELSE "returned",
         tables |-> IF no.error THEN <<>>
                    ELSE <<cl.rows, ca.rows, no.rows>>]

\* a process that has not drawn from its generators yet
InitSeed ==
    /\ np_state = 0
    /\ fk_state = 0
    /\ clock = 0
    /\ runs = <<>>
    /\ SplitIdle
    /\ GenIdle
    /\ FeIdle
    /\ RerunIdle
    /\ InsightIdle
    /\ CutIdle
    /\ DurIdle
    /\ FacIdle
    /\ EscIdle
    /\ ApiIdle
    /\ DashIdle

\* code outside the generator draws from numpy's global generator
NumpyDraw ==
    /\ np_state' = NextState(np_state)
    /\ UNCHANGED <<fk_state, clock, runs, seedFrame>>

\* code outside the generator draws from a Faker object
FakerDraw ==
    /\ fk_state' = NextState(fk_state)
    /\ UNCHANGED <<np_state, clock, runs, seedFrame>>

\* midnight passes
NextDay ==
    /\ clock < MaxClock
    /\ clock' = clock + 1
    /\ UNCHANGED <<np_state, fk_state, runs, seedFrame>>

\* a call of generate_synthetic_data(c, k, n); runs keeps the last two calls
CallGenerate(c, k, n) ==
    LET r == SeededGenerate(c, k, n, clock)
        call == [counts |-> <<c, k, n>>, outcome |-> r.outcome,
                 tables |-> r.tables]
    IN  /\ np_state' = r.np
        /\ fk_state' = r.fk
        /\ runs' = IF runs = <<>> THEN <<call>>
                   ELSE <<runs[Len(runs)], call>>
        /\ UNCHANGED <<clock, seedFrame>>

NextSeed ==
    \/ NumpyDraw
    \/ FakerDraw
    \/ NextDay
    \/ \E c, k, n \in 0..MaxTotalRows :
          c + k + n <= MaxTotalRows /\ CallGenerate(c, k, n)

SpecSeed == InitSeed /\ [][NextSeed]_vars

\* C11: two calls of generate_synthetic_data with the same counts return
\* identical clients, cases and notes tables, whatever was drawn from the
\* random generators before each call.
C11_SameCountsSameTables ==
    \A i, j \in DOMAIN runs :
        runs[i].counts = runs[j].counts =>
            /\ runs[i].outcome = runs[j].outcome
            /\ runs[i].tables = runs[j].tables

\* ------------------------------------------------- the feature engineer
\* A column is its name: [base, level] is the one-hot column 'base_<level>'
\* that pd.get_dummies derives from column base, the level being the rank of
\* the value among the values of the column in sorted order, and level 0 is
\* column base itself.  Of the categorical columns the model keeps status and
\* assignee; case_type, complexity, income_level and location go the way of
\* assignee.
StatusOrder ==
    <<"Abandoned", "Appealed", "Closed", "Open", "Pending", "Resolved">>

AssigneeOrder == <<"Attorney_1", "Attorney_2">>

Rank(order, v) == CHOOSE i \in DOMAIN order : order[i] = v

Column(name) == [base |-> name, level |-> 0]

Dummy(name, lvl) == [base |-> name, level |-> lvl]

\* the columns of the generator's cases and clients tables, merged
GeneratorColumns ==
    {"case_id", "client_id", "open_date", "close_date", "resolution_days",
     "status", "assignee", "escalated", "name", "age", "join_date"}

OptionalColumns == {"status", "name", "resolution_days", "escalated"}

\* the value of row i in a column, as its rank; every client has its own name
ColumnValue(name, rows, i) ==
    CASE name = "status" -> Rank(StatusOrder, rows[i].status)
      [] name = "assignee" -> Rank(AssigneeOrder, rows[i].assignee)
      [] name = "name" -> i

LevelsPresent(name, rows) == {ColumnValue(name, rows, i) : i \in DOMAIN rows}

FirstLevel(levels) == CHOOSE l \in levels : \A m \in levels : l <= m

\* pd.get_dummies(df, columns=columns, drop_first=drop_first): each listed
\* column gives way to one column per value it holds, but for the first value
\* in sorted order when drop_first
GetDummies(cols, rows, columns, drop_first) ==
    LET present == {c \in columns : Column(c) \in cols}
        kept(c) == LET lv == LevelsPresent(c, rows)
                   IN  IF drop_first /\ lv # {} THEN lv \ {FirstLevel(lv)}
                       ELSE lv
    IN  (cols \ {Column(c) : c \in present})
        \cup UNION {{Dummy(c, l) : l \in kept(c)} : c \in present}

\* col.startswith('status_')
StartsWithStatus(c) == c.base = "status" /\ c.level # 0

\* the feature list that leaves out the listed columns only
FeaturesKeepingDummies(cols, exclude) ==
    {c \in cols : ~(c.level = 0 /\ c.base \in exclude)}

\* [col for col in df.columns
\*  if col not in exclude and not col.startswith('status_')]
Features(cols, exclude) ==
    {c \in cols : ~(c.level = 0 /\ c.base \in exclude)
                  /\ ~StartsWithStatus(c)}

\* the target value of row i: a one-hot column of status is 1 in the rows of
\* its value, the placeholder column is 1 in every row
TargetValue(tgt, rows, i) ==
    IF tgt.base = "status"
    THEN (IF ColumnValue("status", rows, i) = tgt.level THEN 1 ELSE 0)
    ELSE 1

\* lambda x: 1 if x == 'Resolved' else 0
IsResolvedLabel(status) == IF status = "Resolved" THEN 1 ELSE 0

FeFailed(exc) ==
    [outcome |-> exc, cols |-> {}, target |-> NoColumn, y |-> <<>>,
     features |-> {}]

\* preprocess_data(clients_df, cases_df), t being the two tables merged on
\* client_id
PreprocessDataFrame(t) ==
    IF {Column("client_id"), Column("open_date"), Column("join_date")}
          \ t.cols # {}
    THEN FeFailed("KeyError")
    ELSE
    LET derived == t.cols \cup {Column("client_tenure_days"),
                      Column("month_opened"), Column("year_opened"),
                      Column("day_of_week_opened")}
        encoded == GetDummies(derived, t.rows, {"status", "assignee"}, TRUE)
        resolved == Dummy("status", Rank(StatusOrder, "Resolved"))
        fromStatus == Column("status") \in encoded
        tgt == IF fromStatus THEN Column("is_resolved")
               ELSE IF resolved \in encoded THEN resolved
               ELSE Column("is_resolved")
        merged == encoded \cup (IF tgt = resolved THEN {} ELSE {tgt})
        n == Len(t.rows)
    IN  IF n - CeilDiv(TestSizeNum * n, TestSizeDen) <= 0
        THEN FeFailed("ValueError")
        ELSE [outcome |-> "returned",
              cols |-> merged,
              target |-> tgt,
              y |-> [i \in 1..n |->
                       IF fromStatus THEN IsResolvedLabel(t.rows[i].status)
                       ELSE TargetValue(tgt, t.rows, i)],
              features |-> Features(merged,
                  {"case_id", "client_id", "open_date", "close_date",
                   "join_date", "status", "is_resolved"})]

\* DataPreprocessor.create_target(df): is_resolved from status when there is
\* a status column, df as it is otherwise
CreateTargetFrame(t) ==
    IF Column("status") \in t.cols
    THEN [outcome |-> "returned",
          cols |-> t.cols \cup {Column("is_resolved")},
          target |-> Column("is_resolved"),
          y |-> [i \in DOMAIN t.rows |-> IsResolvedLabel(t.rows[i].status)],
          features |-> {}]
    ELSE [outcome |-> "returned", cols |-> t.cols, target |-> NoColumn,
          y |-> <<>>, features |-> {}]

\* DataPreprocessor.split_data(df, target): the feature list
SplitDataFeatures(cols, tgt) ==
    Features(cols, {"case_id", "client_id", "open_date", "close_date",
                    "join_date", "status", tgt.base, "combined_notes"})

\* DataPreprocessor.preprocess(clients_df, cases_df): merge_tables,
\* handle_missing_values, create_features, create_target, get_dummies of every
\* object or category column, scaling, split_data
PreprocessFrame(t) ==
    IF Column("client_id") \notin t.cols THEN FeFailed("KeyError")
    ELSE
    LET has(c) == Column(c) \in t.cols
        created == t.cols
            \cup (IF has("open_date")
                  THEN {Column("month_opened"), Column("year_opened"),
                        Column("day_of_week_opened"), Column("is_weekend")}
                  ELSE {})
            \cup (IF has("join_date") /\ has("open_date")
                  THEN {Column("client_tenure_days")} ELSE {})
            \cup (IF has("close_date") /\ has("open_date")
                  THEN {Column("case_duration")} ELSE {})
        labelled == CreateTargetFrame([cols |-> created, rows |-> t.rows])
        encoded == GetDummies(labelled.cols, t.rows,
                              {"status", "assignee", "name"}, TRUE)
                   \cup (IF has("age")
                         THEN {Dummy("age_group", l) : l \in 2..AgeGroups}
                         ELSE {})
    IN  IF ~has("open_date") \/ labelled.target = NoColumn
        THEN FeFailed("KeyError")
        ELSE IF t.rows = <<>> THEN FeFailed("ValueError")
        ELSE [outcome |-> "returned", cols |-> encoded,
              target |-> labelled.target, y |-> labelled.y,
              features |-> SplitDataFeatures(encoded, labelled.target)]

\* the dtype of a column of the table preprocess_data returns: a one-hot
\* column is boolean, the dates are datetime64, a text column that was not
\* encoded is object, the ids, age, resolution_days, escalated (astype(int))
\* and the derived columns are numbers
Dtype(c) ==
    IF c.level # 0 THEN "bool"
    ELSE IF c.base \in {"open_date", "close_date", "join_date"}
    THEN "datetime64"
    ELSE IF c.base \in {"name", "status", "assignee"} THEN "object"
    ELSE "number"

\* the raw tables: the generator's columns, some of the optional ones missing,
\* and up to MaxFeRows cases
RawTables ==
    UNION {{[cols |-> {Column(c) : c \in GeneratorColumns \ missing},
             rows |-> r] :
              r \in UNION {[1..n -> [status : IF "status" \in missing
                                              THEN {"-"}
                                              ELSE {StatusOrder[k] :
                                                      k \in DOMAIN StatusOrder},
                                     assignee : {AssigneeOrder[k] :
                                                   k \in DOMAIN AssigneeOrder}]]
                             : n \in 0..MaxFeRows}}
           : missing \in SUBSET OptionalColumns}

InitFe ==
    /\ raw \in RawTables
    /\ fe_op = "none"
    /\ fe_outcome = "none"
    /\ eng_cols = {}
    /\ target = NoColumn
    /\ y = <<>>
    /\ features = {}
    /\ SplitIdle
    /\ GenIdle
    /\ SeedIdle
    /\ RerunIdle
    /\ InsightIdle
    /\ CutIdle
    /\ DurIdle
    /\ FacIdle
    /\ EscIdle
    /\ ApiIdle
    /\ DashIdle

FeResult(name, r) ==
    /\ fe_op' = name
    /\ fe_outcome' = r.outcome
    /\ eng_cols' = r.cols
    /\ target' = r.target
    /\ y' = r.y
    /\ features' = r.features
    /\ UNCHANGED <<raw, feFrame>>

PreprocessDataColumns ==
    /\ fe_op = "none"
    /\ FeResult("preprocess_data", PreprocessDataFrame(raw))

CreateTarget ==
    /\ fe_op = "none"
    /\ FeResult("create_target", CreateTargetFrame(raw))

Preprocess ==
    /\ fe_op = "none"
    /\ FeResult("preprocess", PreprocessFrame(raw))

NextFe ==
    \/ PreprocessDataColumns
    \/ CreateTarget
    \/ Preprocess

SpecFe == InitFe /\ [][NextFe]_vars

\* the statuses that say the case is closed or resolved
ClosedStatuses == {"Resolved", "Closed"}

\* C13: whenever preprocess_data or create_target returns for a table with a
\* status column, the target of every row is 1 if and only if the raw status
\* of the row says closed or resolved, whichever statuses the table holds.
C13_TargetIffClosed ==
    (fe_op \in {"preprocess_data", "create_target"}
     /\ fe_outcome = "returned"
     /\ Column("status") \in raw.cols) =>
        /\ DOMAIN y = DOMAIN raw.rows
        /\ \A i \in DOMAIN raw.rows :
              (y[i] = 1) <=> (raw.rows[i].status \in ClosedStatuses)

\* C14: when the input has no status column the feature engineer fails
\* instead of returning, and never returns a target that is 1 in every row.
C14_NoStatusFails ==
    (fe_op # "none" /\ Column("status") \notin raw.cols) =>
        /\ fe_outcome \notin {"none", "returned"}
        /\ ~(y # <<>> /\ \A i \in DOMAIN y : y[i] = 1)

\* columns that must not be features: the ids, the raw dates, the raw status
LeakingColumns ==
    {Column(c) : c \in {"case_id", "client_id", "open_date", "close_date",
                        "join_date", "status"}}

\* C15: the feature matrices returned by preprocess_data and by split_data
\* hold none of case_id, client_id, open_date, close_date, join_date, the raw
\* status column, a one-hot column derived from status, or the target column.
C15_NoLeakingFeatures ==
    (fe_op \in {"preprocess_data", "preprocess"}
     /\ fe_outcome = "returned") =>
        \A c \in features :
            /\ c \notin LeakingColumns
            /\ c.base # "status"
            /\ c # target

\* preprocess_data returned features for a table whose one-hot column of the
\* status Resolved is in the engineered table as the target
C15_Witness ==
    /\ fe_op = "preprocess_data"
    /\ fe_outcome = "returned"
    /\ target = Dummy("status", Rank(StatusOrder, "Resolved"))
    /\ target \in eng_cols
    /\ Column("case_id") \in eng_cols
    /\ features # {}

\* C16: every column of the feature matrix preprocess_data returns for the
\* generator's client and case tables is numeric.
C16_FeaturesNumeric ==
    (fe_op = "preprocess_data"
     /\ fe_outcome = "returned"
     /\ raw.cols = {Column(c) : c \in GeneratorColumns}) =>
        \A c \in features : Dtype(c) \in {"number", "bool"}

\* --------------------------------------- the feature engineer, run again
\* The numeric side of the feature engineer, on resolution_days: the median
\* fills the cells without a value and the scaler centres the column on the
\* mean it was fitted on.  Medians and the values using them are kept times 2
\* and a centred value times the number of fitted rows, so that all stay
\* integers; the division by the standard deviation is left out.
RECURSIVE DropNone(_)
DropNone(s) ==
    IF s = <<>> THEN <<>>
    ELSE IF Head(s) = None THEN DropNone(Tail(s))
    ELSE <<Head(s)>> \o DropNone(Tail(s))

RECURSIVE SumSeq(_)
SumSeq(s) == IF s = <<>> THEN 0 ELSE Head(s) + SumSeq(Tail(s))

\* twice the median of the values of a non-empty column
Median2(s) ==
    LET v == SortSeq(s)
        n == Len(v)
    IN  IF n % 2 = 1 THEN 2 * v[(n + 1) \div 2]
        ELSE v[n \div 2] + v[n \div 2 + 1]

\* fillna(median) / SimpleImputer.transform: twice the cell, or the median
FillNa(c, median2) ==
    [i \in DOMAIN c |-> IF c[i] = None THEN median2 ELSE 2 * c[i]]

\* a scaler that keeps the mean of its first fit
FitScalerOnce(old, data) ==
    IF old.scaler_fitted THEN old
    ELSE [old EXCEPT !.scaler_fitted = TRUE,
                     !.sum = SumSeq(DropNone(data)),
                     !.n = Len(DropNone(data))]

\* StandardScaler.fit: the mean of the column, as its sum and its count,
\* whatever the scaler was fitted on before
FitScaler(old, data) ==
    [old EXCEPT !.scaler_fitted = TRUE,
                !.sum = SumSeq(DropNone(data)),
                !.n = Len(DropNone(data))]

\* StandardScaler.transform: the cell minus the fitted mean
Transform(inst, data) ==
    [i \in DOMAIN data |->
        IF data[i] = None THEN None ELSE inst.n * data[i] - inst.sum]

RerunFailed(exc, inst) ==
    [outcome |-> exc, engineered |-> <<>>, X |-> <<>>, instance |-> inst]

\* numerical_imputer.fit_transform and scaler.fit_transform of
\* DataPreprocessor.preprocess, as they leave the instance inst: no fit on a
\* table without rows, the imputer alone when the column has no value (the
\* run ends there), else both
FitInstance(c, inst) ==
    IF c = <<>> THEN inst
    ELSE IF DropNone(c) = <<>>
    THEN [inst EXCEPT !.imputer_fitted = TRUE, !.median = None]
    ELSE LET imputer == [inst EXCEPT !.imputer_fitted = TRUE,
                                     !.median = Median2(DropNone(c))]
         IN  FitScaler(imputer, FillNa(c, imputer.median))

\* DataPreprocessor.preprocess on the instance inst: handle_missing_values
\* (numerical_imputer.fit_transform; a column without any value is dropped by
\* the imputer and the assignment fails), then scaler.fit_transform, then
\* split_data, whose partitions hold the rows of the scaled table
PreprocessCells(c, inst) ==
    LET fitted == FitInstance(c, inst)
    IN  IF c = <<>> \/ DropNone(c) = <<>>
        THEN RerunFailed("ValueError", fitted)
        ELSE LET scaled == Transform(fitted, FillNa(c, fitted.median))
             IN  [outcome |-> "returned", engineered |-> scaled,
                  X |-> scaled, instance |-> fitted]

\* preprocess_data: fillna with the median of the column (no cell is filled
\* when the column has no value), train_test_split with random_state=42 (a
\* fixed permutation of the row positions for each number of rows; the model
\* takes the identity), a new scaler fitted on the training rows and applied
\* to both partitions; the merged table comes back filled but not scaled
PreprocessDataCells(c) ==
    LET n == Len(c)
        ntest == CeilDiv(TestSizeNum * n, TestSizeDen)
        filled == IF DropNone(c) = <<>> THEN c
                  ELSE FillNa(c, Median2(DropNone(c)))
        scaler == FitScaler(Unfitted, SubSeq(filled, 1, n - ntest))
    IN  IF n - ntest <= 0 THEN RerunFailed("ValueError", Unfitted)
        ELSE [outcome |-> "returned", engineered |-> filled,
              X |-> Transform(scaler, filled), instance |-> Unfitted]

CellColumns ==
    UNION {[1..n -> (0..MaxCell) \cup {None}] : n \in 0..MaxFeRows}

InitRerun ==
    /\ cells \in CellColumns
    /\ instance = Unfitted
    /\ reruns = <<>>
    /\ SplitIdle
    /\ GenIdle
    /\ SeedIdle
    /\ FeIdle
    /\ InsightIdle
    /\ CutIdle
    /\ DurIdle
    /\ FacIdle
    /\ EscIdle
    /\ ApiIdle
    /\ DashIdle

\* preprocessor = DataPreprocessor()
NewInstance ==
    /\ instance' = Unfitted
    /\ UNCHANGED <<cells, reruns, rerunFrame>>

\* the states preprocessing some other, shorter table can leave the
\* instance inst in
AfterPreprocess(inst) ==
    {FitInstance(c, inst) : c \in {d \in CellColumns : Len(d) < MaxFeRows}}

\* the instance preprocesses other tables
PreprocessOther ==
    /\ instance' \in AfterPreprocess(instance)
    /\ UNCHANGED <<cells, reruns, rerunFrame>>

Rerun(entry, r) ==
    LET run == [entry |-> entry, outcome |-> r.outcome,
                engineered |-> r.engineered, X |-> r.X]
    IN  reruns' = IF reruns = <<>> THEN <<run>>
                  ELSE <<reruns[Len(reruns)], run>>

\* preprocessor.preprocess(clients_df, cases_df, case_notes_df) on the table,
\* by a new instance, by one whose scaler the run fitted to another mean, or
\* by one fitted to this mean before
PreprocessAgain ==
    LET r == PreprocessCells(cells, instance)
    IN  /\ instance' = r.instance
        /\ Rerun(IF ~instance.scaler_fitted THEN "new"
                 ELSE IF r.instance.sum # instance.sum THEN "refitted"
                 ELSE "reused", r)
        /\ UNCHANGED <<cells, rerunFrame>>

\* preprocess_data(clients_df, cases_df) on the table
PreprocessDataAgain ==
    /\ Rerun("preprocess_data", PreprocessDataCells(cells))
    /\ UNCHANGED <<cells, instance, rerunFrame>>

NextRerun ==
    \/ NewInstance
    \/ PreprocessOther
    \/ PreprocessAgain
    \/ PreprocessDataAgain

SpecRerun == InitRerun /\ [][NextRerun]_vars

\* two runs of the same entry point: DataPreprocessor.preprocess on a new or
\* on a used instance, or preprocess_data
SameEntry(a, b) ==
    (a.entry = "preprocess_data") <=> (b.entry = "preprocess_data")

\* C17: two runs of the feature engineer on the same raw tables give the same
\* engineered table and the same feature matrix (or the same failure), also
\* when the second run reuses the DataPreprocessor instance.
C17_RerunIdentical ==
    \A i, j \in DOMAIN reruns :
        SameEntry(reruns[i], reruns[j]) =>
            /\ reruns[i].outcome = reruns[j].outcome
            /\ reruns[i].engineered = reruns[j].engineered
            /\ reruns[i].X = reruns[j].X

\* the table was preprocessed by a new instance and again by an instance that
\* had been fitted on a column of another mean, and both runs returned
C17_Witness ==
    /\ Len(reruns) = 2
    /\ reruns[1].entry = "new"
    /\ reruns[2].entry = "refitted"
    /\ reruns[2].outcome = "returned"
    /\ \E i, k \in DOMAIN reruns[2].X : reruns[2].X[i] # reruns[2].X[k]

(***************************************************************************)
(* The insights: CaseInsights (src/api/case_insights.py), which keeps the  *)
(* caller's table as self.data, and CaseInsightsAgent                      *)
(* (src/agent/case_insights.py), whose analyze_* take the table as an      *)
(* argument.  A table is its set of column names and its rows; of a row    *)
(* the model keeps the assignee, the status and the resolved indicator.    *)
(* A cell of a column the table does not have is "" or None.               *)
(***************************************************************************)

\* the columns every table of the model has
FixedColumns == {"client_id", "open_date", "age", "case_duration", "complexity_score"}

\* the columns a table of the model may lack
DroppableColumns ==
    {"case_id", "assignee", "case_type", "status", "is_resolved", "escalated",
     "resolution_days"}

Assignees == {"Attorney_1", "Attorney_2"}

\* one row whose case is resolved (r = 1) or not, as a table with the columns cols holds it
InsightRow(cols, a, r) ==
    [assignee    |-> IF "assignee" \in cols THEN a ELSE "",
     status      |-> IF "status" \in cols
                     THEN (IF r = 1 THEN "Resolved" ELSE "Pending") ELSE "",
     is_resolved |-> IF "is_resolved" \in cols THEN r ELSE None]

InsightRowsOf(cols) == {InsightRow(cols, a, r) : a \in Assignees, r \in 0..1}

InsightTables ==
    UNION {UNION {{[cols |-> FixedColumns \cup dropped, rows |-> rs] :
                      rs \in [1..n -> InsightRowsOf(FixedColumns \cup dropped)]} :
                  n \in 0..MaxInsightRows} :
           dropped \in SUBSET DroppableColumns}

\* self.data['is_resolved'] = values: the column is added to the table itself
WithIsResolved(t, values) ==
    [cols |-> t.cols \cup {"is_resolved"},
     rows |-> [i \in DOMAIN t.rows |-> [t.rows[i] EXCEPT !.is_resolved = values[i]]]]

WithColumn(t, name) == [t EXCEPT !.cols = @ \cup {name}]

StatusIsResolved(rows) ==
    [i \in DOMAIN rows |-> IF rows[i].status = "Resolved" THEN 1 ELSE 0]

DummyResolved(rows) == [i \in DOMAIN rows |-> 1]

\* _preprocess: the dates are converted in place and is_resolved is added
\* when the table has a status and no is_resolved
InsightsPreprocess(t) ==
    IF "status" \in t.cols /\ "is_resolved" \notin t.cols
    THEN WithIsResolved(t, StatusIsResolved(t.rows))
    ELSE t

\* a returned value; the kind "message" is a sentence such as
\* "Case type information not found in the dataset."
Returns(kind) == [kind |-> kind, names |-> {}, metrics |-> <<>>]

\* a raised error and the columns its message names
Raises(kind, names) == [kind |-> kind, names |-> names, metrics |-> <<>>]

\* the sum of the resolved indicators of the rows idx
RECURSIVE SumResolved(_, _)
SumResolved(rows, idx) ==
    IF idx = {} THEN 0
    ELSE LET i == CHOOSE j \in idx : TRUE
         IN  rows[i].is_resolved + SumResolved(rows, idx \ {i})

\* the mean of the resolved indicator as a fraction; 0/0 is NaN
MeanResolved(rows, idx) == [num |-> SumResolved(rows, idx), den |-> Cardinality(idx)]

\* round(3) of a mean: thousandths, half up (no mean of the model's tables is a tie)
Round3(m) ==
    IF m.den = 0 THEN m
    ELSE [num |-> (2000 * m.num + m.den) \div (2 * m.den), den |-> 1000]

GroupKeys(rows) == {rows[i].assignee : i \in DOMAIN rows}

GroupRows(rows, a) == {i \in DOMAIN rows : rows[i].assignee = a}

\* groupby('assignee').agg({target: 'mean', 'case_id': 'count'}) over the whole table
GroupByAssigneeOverall(rows) ==
    [a \in GroupKeys(rows) |->
        [case_count |-> Cardinality(GroupRows(rows, a)),
         resolution_rate |-> MeanResolved(rows, DOMAIN rows)]]

\* groupby('assignee').agg({target: 'mean', 'case_id': 'count'})
GroupByAssignee(rows) ==
    [a \in GroupKeys(rows) |->
        [case_count |-> Cardinality(GroupRows(rows, a)),
         resolution_rate |-> MeanResolved(rows, GroupRows(rows, a))]]

\* the summary when the table has no assignee information
OverallRow(rows) ==
    [a \in {"Overall"} |->
        [case_count |-> Len(rows),
         resolution_rate |-> MeanResolved(rows, DOMAIN rows)]]

\* the table assignee_performance works on: the target column is added in place
WithTarget(t) ==
    IF "is_resolved" \in t.cols THEN t
    ELSE IF "status" \in t.cols THEN WithIsResolved(t, StatusIsResolved(t.rows))
    ELSE WithIsResolved(t, DummyResolved(t.rows))

AssigneePerformanceResult(t) ==
    IF "assignee" \notin t.cols
    THEN [kind |-> "table", names |-> {}, metrics |-> OverallRow(t.rows)]
    ELSE IF "case_id" \notin t.cols
    THEN Raises("KeyError", {"case_id"})
    ELSE [kind |-> "table", names |-> {}, metrics |-> GroupByAssignee(t.rows)]

\* the operations of a CaseInsights instance
ApiOps ==
    {"common_case_types", "resolution_factors", "assignee_performance",
     "escalation_patterns", "plot_trends"}

\* the caller hands a table over
InitInsights ==
    /\ given \in InsightTables
    /\ self_data = given
    /\ ins_op = "given"
    /\ result = NoResult
    /\ SplitIdle
    /\ GenIdle
    /\ SeedIdle
    /\ FeIdle
    /\ RerunIdle
    /\ CutIdle
    /\ DurIdle
    /\ FacIdle
    /\ EscIdle
    /\ ApiIdle
    /\ DashIdle

\* CaseInsights(data): self.data is the caller's table, preprocessed in place
Construct ==
    /\ ins_op = "given"
    /\ self_data' = InsightsPreprocess(self_data)
    /\ ins_op' = "constructed"
    /\ result' = NoResult
    /\ UNCHANGED <<given, insightFrame>>

Constructed == ins_op \in ApiOps \cup {"constructed"}

CommonCaseTypes ==
    /\ Constructed
    /\ ins_op' = "common_case_types"
    /\ result' = IF "case_type" \in self_data.cols
                 THEN Returns("series")
                 ELSE Returns("message")
    /\ UNCHANGED <<self_data, given, insightFrame>>

ResolutionFactors ==
    /\ Constructed
    /\ ins_op' = "resolution_factors"
    /\ result' = IF "resolution_days" \notin self_data.cols
                 THEN Returns("message")
                 ELSE Returns("series")
    /\ UNCHANGED <<self_data, given, insightFrame>>

AssigneePerformance ==
    /\ Constructed
    /\ ins_op' = "assignee_performance"
    /\ self_data' = WithTarget(self_data)
    /\ result' = AssigneePerformanceResult(self_data')
    /\ UNCHANGED <<given, insightFrame>>

\* the crosstab is sorted by its column True, which it has only when some row
\* is escalated; the rows' escalated cells are not part of the model, so both
\* outcomes are possible for a table with rows
EscalationPatterns ==
    /\ Constructed
    /\ ins_op' = "escalation_patterns"
    /\ IF "escalated" \notin self_data.cols
       THEN /\ result' = Returns("message")
            /\ UNCHANGED self_data
       ELSE IF "case_type" \notin self_data.cols
       THEN /\ result' = Raises("KeyError", {"case_type"})
            /\ UNCHANGED self_data
       ELSE \/ /\ result' = Raises("KeyError", {})
               /\ UNCHANGED self_data
            \/ /\ self_data.rows # <<>>
               /\ self_data' = WithColumn(self_data, "age_group")
               /\ result' = Returns("dict")
    /\ UNCHANGED <<given, insightFrame>>

\* the month column is added before the resolution rates are read
PlotTrends ==
    /\ Constructed
    /\ self_data.rows # <<>>
    /\ ins_op' = "plot_trends"
    /\ self_data' = WithColumn(self_data, "month")
    /\ result' = IF "is_resolved" \in self_data.cols
                 THEN Returns("plots saved")
                 ELSE Raises("KeyError", {"is_resolved"})
    /\ UNCHANGED <<given, insightFrame>>

\* CaseInsightsAgent: each analyze_* takes the table as its argument

\* the metrics of analyze_assignee_performance: the aggregate, rounded to 3 places
RoundedMetrics(m) ==
    [a \in DOMAIN m |->
        [case_count |-> m[a].case_count,
         resolution_rate |-> Round3(m[a].resolution_rate)]]

\* the columns analyze_assignee_performance requires
AssigneeRequiredCols ==
    {"assignee", "case_id", "is_resolved", "resolution_days", "complexity_score"}

\* the columns analyze_escalation_patterns requires of the cases table
EscalationRequiredCols == {"client_id", "case_id", "is_resolved"}

\* an analyze_* returns or raises; the caller's table is only read
Analyze(name, r) ==
    /\ ins_op = "given"
    /\ ins_op' = name
    /\ result' = r
    /\ UNCHANGED <<self_data, given, insightFrame>>

AnalyzeCaseTypes ==
    Analyze("analyze_case_types",
            IF given.rows = <<>> THEN Raises("ValueError", {})
            ELSE IF "case_type" \notin given.cols THEN Raises("KeyError", {"case_type"})
            ELSE IF "status" \notin given.cols THEN Raises("KeyError", {"status"})
            ELSE Returns("dict"))

AnalyzeResolutionFactors ==
    Analyze("analyze_resolution_factors",
            IF given.rows = <<>> THEN Raises("ValueError", {})
            ELSE IF "case_duration" \notin given.cols
            THEN Raises("KeyError", {"case_duration"})
            ELSE Returns("dict"))

AnalyzeAssigneePerformance ==
    Analyze("analyze_assignee_performance",
            IF given.rows = <<>> THEN Raises("ValueError", {})
            ELSE IF AssigneeRequiredCols \ given.cols # {}
            THEN Raises("KeyError", AssigneeRequiredCols \ given.cols)
            ELSE [kind |-> "dict", names |-> {},
                  metrics |-> RoundedMetrics(GroupByAssignee(given.rows))])

\* the clients table handed over with the cases is not empty and shares
\* only client_id with them
AnalyzeEscalationPatterns ==
    Analyze("analyze_escalation_patterns",
            IF given.rows = <<>> THEN Raises("ValueError", {})
            ELSE IF EscalationRequiredCols \ given.cols # {}
            THEN Raises("KeyError", EscalationRequiredCols \ given.cols)
            ELSE Returns("dict"))

NextInsights ==
    \/ Construct
    \/ CommonCaseTypes
    \/ ResolutionFactors
    \/ AssigneePerformance
    \/ EscalationPatterns
    \/ PlotTrends
    \/ AnalyzeCaseTypes
    \/ AnalyzeResolutionFactors
    \/ AnalyzeAssigneePerformance
    \/ AnalyzeEscalationPatterns

SpecInsights == InitInsights /\ [][NextInsights]_vars

\* INSIGHT CLAIMS

\* the operations of CaseInsights and CaseInsightsAgent that have acted on the table
InsightOps ==
    ApiOps \cup {"constructed", "analyze_case_types", "analyze_resolution_factors",
                 "analyze_assignee_performance", "analyze_escalation_patterns"}

\* C18: after constructing or querying CaseInsights, and after an analyze_*
\* of the agent, the caller's table has the same columns and the same values
\* as when it was handed over.
C18_InputUnchanged ==
    ins_op \in InsightOps => self_data = given

\* the columns an aggregation cannot do without
RequiredColumns(name) ==
    CASE name = "common_case_types" -> {"case_type"}
      [] name = "resolution_factors" -> {"resolution_days"}
      [] name = "assignee_performance" -> {"case_id"}
      [] name = "escalation_patterns" -> {"escalated", "case_type"}
      [] name = "analyze_case_types" -> {"case_type", "status"}
      [] name = "analyze_resolution_factors" -> {"case_duration"}
      [] name = "analyze_assignee_performance" -> AssigneeRequiredCols
      [] name = "analyze_escalation_patterns" -> EscalationRequiredCols
      [] OTHER -> {}

AggregationOps ==
    {"common_case_types", "resolution_factors", "assignee_performance",
     "escalation_patterns", "analyze_case_types", "analyze_resolution_factors",
     "analyze_assignee_performance", "analyze_escalation_patterns"}

\* C19: an insights aggregation on a table that lacks a column it requires
\* raises an error that names missing columns, and on an empty table it
\* raises ValueError (either error when the table is both); it never returns
\* a result or a message instead.
C19_MissingColumnRaises ==
    ins_op \in AggregationOps =>
        LET missing == RequiredColumns(ins_op) \ given.cols
        IN  /\ (missing # {} /\ given.rows # <<>>) =>
                   /\ result.kind = "KeyError"
                   /\ result.names # {}
                   /\ result.names \subseteq missing
            /\ (missing = {} /\ given.rows = <<>>) => result.kind = "ValueError"
            /\ (missing # {} /\ given.rows = <<>>) =>
                   result.kind \in {"KeyError", "ValueError"}

AssigneeOps == {"assignee_performance", "analyze_assignee_performance"}

\* the resolved indicator of a row of the table t: its is_resolved cell, else
\* whether its status is Resolved, else (a table with neither) 1
IndicatorOf(t, row) ==
    IF "is_resolved" \in t.cols THEN row.is_resolved
    ELSE IF "status" \in t.cols THEN (IF row.status = "Resolved" THEN 1 ELSE 0)
    ELSE 1

\* the rows of the assignee a in the table t, and the resolved ones among them
CasesOf(t, a) == {i \in DOMAIN t.rows : t.rows[i].assignee = a}

ResolvedCasesOf(t, a) == {i \in CasesOf(t, a) : IndicatorOf(t, t.rows[i]) = 1}

RECURSIVE TotalCases(_, _)
TotalCases(m, keys) ==
    IF keys = {} THEN 0
    ELSE LET a == CHOOSE k \in keys : TRUE
         IN  m[a].case_count + TotalCases(m, keys \ {a})

\* one row per assignee of the table, with that assignee's number of rows;
\* the counts add up to the table's number of rows
OneRowPerAssignee(t, m) ==
    /\ DOMAIN m = {t.rows[i].assignee : i \in DOMAIN t.rows}
    /\ \A a \in DOMAIN m : m[a].case_count = Cardinality(CasesOf(t, a))
    /\ TotalCases(m, DOMAIN m) = Len(t.rows)

\* the rate is the resolved cases divided by the case count
ExactRates(t, m) ==
    \A a \in DOMAIN m :
        /\ m[a].resolution_rate.den # 0
        /\ m[a].resolution_rate.num * m[a].case_count
               = Cardinality(ResolvedCasesOf(t, a)) * m[a].resolution_rate.den

\* the rate is that quotient to the nearest thousandth
RatesToThreePlaces(t, m) ==
    \A a \in DOMAIN m :
        LET d == m[a].resolution_rate.num * m[a].case_count
                    - 1000 * Cardinality(ResolvedCasesOf(t, a))
        IN  /\ m[a].resolution_rate.den = 1000
            /\ 2 * d <= m[a].case_count
            /\ 2 * d >= 0 - m[a].case_count

RowCount(t) == t.before + t.after + t.null

\* the tables a..b of counts
CountsBetween(a, b) ==
    {[before |-> nb, after |-> na, null |-> nn] :
        nb \in a.before..b.before, na \in a.after..b.after, nn \in a.null..b.null}

MergedTables ==
    CountsBetween(NoRows, [before |-> MaxSideRows, after |-> MaxSideRows,
                           null |-> MaxNullRows])

Minus(t, u) ==
    [before |-> t.before - u.before, after |-> t.after - u.after,
     null |-> t.null - u.null]

\* train_test_split(merged_df, test_size=0.2, random_state=42) by counts:
\* ceil(0.2 * n) rows, whichever the shuffle picks, are the test partition
\* and the others the training partition; ValueError when that leaves no
\* training row (n <= 1)
TrainTestSplitCounts(t) ==
    LET n == RowCount(t)
        ntest == CeilDiv(TestSizeNum * n, TestSizeDen)
    IN  IF n - ntest <= 0
        THEN {[outcome |-> "ValueError", train |-> NoRows, test |-> NoRows]}
        ELSE {[outcome |-> "random", train |-> Minus(t, te), test |-> te] :
                 te \in {u \in CountsBetween(NoRows, t) : RowCount(u) = ntest}}

\* merged_df[open_date < train_cutoff] and merged_df[open_date >= train_cutoff]
\* (a comparison with NaT is False for both), replaced by the random split
\* when either has fewer than 10 rows
CutoffSplit(t) ==
    LET train_data == [before |-> t.before, after |-> 0, null |-> 0]
        test_data  == [before |-> 0, after |-> t.after, null |-> 0]
    IN  IF RowCount(train_data) < MinPartitionRows
           \/ RowCount(test_data) < MinPartitionRows
        THEN TrainTestSplitCounts(t)
        ELSE {[outcome |-> "temporal", train |-> train_data, test |-> test_data]}

InitCut ==
    /\ merged_df \in MergedTables
    /\ cut = [outcome |-> "none", train |-> NoRows, test |-> NoRows]
    /\ SplitIdle
    /\ GenIdle
    /\ SeedIdle
    /\ FeIdle
    /\ RerunIdle
    /\ InsightIdle
    /\ DurIdle
    /\ FacIdle
    /\ EscIdle
    /\ ApiIdle
    /\ DashIdle

\* preprocess_data(clients_df, cases_df), lines 72-85
PreprocessDataSplit ==
    /\ cut.outcome = "none"
    /\ cut' \in CutoffSplit(merged_df)
    /\ UNCHANGED <<merged_df, cutFrame>>

NextCut == PreprocessDataSplit

SpecCut == InitCut /\ [][NextCut]_vars

\* C26: preprocess_data returns the temporal partition (the rows before the
\* cutoff as train, all other rows as test) exactly when both sides of the
\* cutoff have at least 10 rows, and otherwise a random split with a test
\* share of 0.2; either way every merged row is in exactly one partition.
C26_TemporalOrRandomCovers ==
    cut.outcome # "none" =>
        /\ IF merged_df.before >= 10 /\ RowCount(merged_df) - merged_df.before >= 10
           THEN /\ cut.outcome = "temporal"
                /\ cut.train.before = merged_df.before
                /\ RowCount(cut.train) = merged_df.before
           ELSE /\ cut.outcome = "random"
                /\ 5 * RowCount(cut.test) >= RowCount(merged_df)
                /\ 5 * (RowCount(cut.test) - 1) < RowCount(merged_df)
        /\ Minus(merged_df, cut.train) = cut.test

(***************************************************************************)
(* case_duration (src/src/data/enhanced_processor.py): create_features     *)
(* subtracts open_date from close_date; in preprocess the table has been   *)
(* through handle_missing_values before.  Of a row the model keeps the     *)
(* open_date and the close_date, NaT for a case that has not been closed.  *)
(***************************************************************************)

\* a case: opened on a day, and closed on that day or later or not at all
CaseDates ==
    {r \in [open_date : Days, close_date : Days \cup {NaT}] :
        r.close_date = NaT \/ r.close_date >= r.open_date}

CaseDateTables == UNION {[1..n -> CaseDates] : n \in 0..MaxDurRows}

\* how often the close date d occurs in the column
Occurrences(rows, d) == Cardinality({i \in DOMAIN rows : rows[i].close_date = d})

\* SimpleImputer(strategy='most_frequent') on the close_date column: the most
\* frequent of the present values, the smallest of them on a tie
MostFrequent(rows) ==
    CHOOSE d \in Days :
        /\ Occurrences(rows, d) > 0
        /\ \A e \in Days :
              \/ Occurrences(rows, e) < Occurrences(rows, d)
              \/ Occurrences(rows, e) = Occurrences(rows, d) /\ d <= e

\* handle_missing_values on the close_date column, which is an object column
\* (dates and missing cells).  The imputer fills the cells it reads as missing
\* (NaN, as in a table read from a file) and leaves the others (None, as in
\* the generator's table): imputed says which the missing cells are.  A column
\* of which every cell is filled has none left to take the value from: the
\* imputer drops it and the assignment fails.
HandleMissingValues(rows, imputed) ==
    IF ~imputed \/ \A i \in DOMAIN rows : rows[i].close_date # NaT
    THEN [outcome |-> "returned", rows |-> rows]
    ELSE IF \A i \in DOMAIN rows : rows[i].close_date = NaT
    THEN [outcome |-> "ValueError", rows |-> rows]
    ELSE [outcome |-> "returned",
          rows |-> [i \in DOMAIN rows |->
                      IF rows[i].close_date = NaT
                      THEN [rows[i] EXCEPT !.close_date = MostFrequent(rows)]
                      ELSE rows[i]]]

\* df['case_duration'] = (df['close_date'] - df['open_date']).dt.days:
\* None (NaN) where the close_date is NaT
CreateFeaturesDuration(rows) ==
    [i \in DOMAIN rows |->
        IF rows[i].close_date = NaT THEN None
        ELSE rows[i].close_date - rows[i].open_date]

InitDur ==
    /\ case_rows \in CaseDateTables
    /\ dur_op = "none"
    /\ dur_outcome = "none"
    /\ case_duration = <<>>
    /\ SplitIdle
    /\ GenIdle
    /\ SeedIdle
    /\ FeIdle
    /\ RerunIdle
    /\ InsightIdle
    /\ CutIdle
    /\ FacIdle
    /\ EscIdle
    /\ ApiIdle
    /\ DashIdle

\* DataPreprocessor().create_features(df)
CreateFeatures ==
    /\ dur_op = "none"
    /\ dur_op' = "create_features"
    /\ dur_outcome' = "returned"
    /\ case_duration' = CreateFeaturesDuration(case_rows)
    /\ UNCHANGED <<case_rows, durFrame>>

\* DataPreprocessor().preprocess(clients_df, cases_df): handle_missing_values,
\* then create_features
PreprocessDuration ==
    /\ dur_op = "none"
    /\ dur_op' = "preprocess"
    /\ \E imputed \in BOOLEAN :
          LET h == HandleMissingValues(case_rows, imputed)
          IN  /\ dur_outcome' = h.outcome
              /\ case_duration' = IF h.outcome = "returned"
                                  THEN CreateFeaturesDuration(h.rows)
                                  ELSE <<>>
    /\ UNCHANGED <<case_rows, durFrame>>

NextDur ==
    \/ CreateFeatures
    \/ PreprocessDuration

SpecDur == InitDur /\ [][NextDur]_vars

\* the day the features are engineered on: no case was opened after it
CurrentDate == MaxDate

\* C22: the engineered case_duration of a closed case is its close_date minus
\* its open_date, and that of a case not closed is the current date minus its
\* open_date: a number of days that is not negative.
C22_DurationOfEveryCase ==
    dur_op \in {"create_features", "preprocess"} =>
        /\ dur_outcome = "returned"
        /\ DOMAIN case_duration = DOMAIN case_rows
        /\ \A i \in DOMAIN case_rows :
              /\ case_duration[i] \in Nat
              /\ case_rows[i].close_date # NaT =>
                    case_duration[i] = case_rows[i].close_date - case_rows[i].open_date
              /\ case_rows[i].close_date = NaT =>
                    case_duration[i] = CurrentDate - case_rows[i].open_date

(***************************************************************************)
(* CaseInsights.resolution_factors (src/src/api/case_insights.py, lines    *)
(* 46-63) on the raw merged table and, as main and the API startup call    *)
(* it, on the engineered table preprocess_data returns.  Of the table the  *)
(* model keeps the resolution_days column.  A correlation is kept by its   *)
(* sign; its value is not computed.                                        *)
(***************************************************************************)

DaysColumns ==
    UNION {[1..n -> (0..MaxCell) \cup {None}] : n \in 0..MaxFactorRows}

\* self.data[self.data['resolution_days'].notna()]
NotNa(c) == {i \in DOMAIN c : c[i] # None}

\* the numeric columns other than the ids and resolution_days
NumericFeatures == 1..2

Signs == -1..1

RECURSIVE Reverse(_)
Reverse(s) == IF s = <<>> THEN <<>> ELSE Reverse(Tail(s)) \o <<Head(s)>>

\* sort_values(ascending=False)
SortValues(s) == Reverse(SortSeq(s))

\* resolution_factors on a table with the resolution_days column c, the
\* features having the correlations corr over the rows it keeps
ResolutionFactorsOf(c, corr) ==
    [rows |-> NotNa(c), correlations |-> SortValues(corr)]

InitFac ==
    /\ days_col \in DaysColumns
    /\ fac_op = "none"
    /\ fac_outcome = "none"
    /\ contributing = {}
    /\ correlations = <<>>
    /\ SplitIdle
    /\ GenIdle
    /\ SeedIdle
    /\ FeIdle
    /\ RerunIdle
    /\ InsightIdle
    /\ CutIdle
    /\ DurIdle
    /\ EscIdle
    /\ ApiIdle
    /\ DashIdle

\* CaseInsights(merged).resolution_factors() on the raw merged table
FactorsOfRaw ==
    /\ fac_op = "none"
    /\ fac_op' = "raw"
    /\ fac_outcome' = "returned"
    /\ \E corr \in [NumericFeatures -> Signs] :
          LET r == ResolutionFactorsOf(days_col, corr)
          IN  /\ contributing' = r.rows
              /\ correlations' = r.correlations
    /\ UNCHANGED <<days_col, facFrame>>

\* main: merged_data = preprocess_data(clients, cases)[0], then
\* CaseInsights(merged_data).resolution_factors()
FactorsOfEngineered ==
    /\ fac_op = "none"
    /\ fac_op' = "engineered"
    /\ LET p == PreprocessDataCells(days_col)
       IN  IF p.outcome # "returned"
           THEN /\ fac_outcome' = p.outcome
                /\ contributing' = {}
                /\ correlations' = <<>>
           ELSE /\ fac_outcome' = "returned"
                /\ \E corr \in [NumericFeatures -> Signs] :
                      LET r == ResolutionFactorsOf(p.engineered, corr)
                      IN  /\ contributing' = r.rows
                          /\ correlations' = r.correlations
    /\ UNCHANGED <<days_col, facFrame>>

NextFac ==
    \/ FactorsOfRaw
    \/ FactorsOfEngineered

SpecFac == InitFac /\ [][NextFac]_vars

\* C21: the correlations resolution_factors returns are computed over exactly
\* the rows of the resolved cases (those with a resolution_days in the raw
\* table), also when it is given the engineered table of preprocess_data, and
\* they come sorted in descending order of their signed value.
C21_OnlyResolvedCasesContribute ==
    (fac_op \in {"raw", "engineered"} /\ fac_outcome = "returned") =>
        /\ contributing = {i \in DOMAIN days_col : days_col[i] # None}
        /\ \A i, j \in DOMAIN correlations :
              i < j => correlations[i] >= correlations[j]

(***************************************************************************)
(* CaseInsights.escalation_patterns (src/src/api/case_insights.py, lines   *)
(* 184-215) on a table that has the columns escalated, case_type and age.  *)
(* Of a row the model keeps the age and the escalated flag.                *)
(***************************************************************************)

\* pd.cut(self.data['age'], bins=[0, 30, 45, 60, 100], labels=[...])
AgeBins == <<0, 30, 45, 60, 100>>

AgeLabels == <<"<30", "30-45", "45-60", "60+">>

\* the ages on and next to every edge of the bins
Ages ==
    {a \in 0..(AgeBins[Len(AgeBins)] + 1) :
        \E k \in DOMAIN AgeBins : a - AgeBins[k] \in -1..1}

\* pd.cut with the default right=True: the bin (lower, upper] the age is in,
\* "" (NaN) for an age in none of them
Cut(age) ==
    IF \E k \in DOMAIN AgeLabels : AgeBins[k] < age /\ age <= AgeBins[k + 1]
    THEN AgeLabels[CHOOSE k \in DOMAIN AgeLabels :
                       AgeBins[k] < age /\ age <= AgeBins[k + 1]]
    ELSE ""

AgeRows == [age : Ages, escalated : BOOLEAN]

AgeTables == UNION {[1..n -> AgeRows] : n \in 0..MaxEscRows}

\* pd.crosstab(index, self.data['escalated'], normalize='index'): one row for
\* every value of the index (NaN left out), holding the numbers of its
\* escalated and other cases over the number of its cases
Crosstab(index, rows) ==
    [g \in {index[i] : i \in DOMAIN index} \ {""} |->
        LET of_g == {i \in DOMAIN index : index[i] = g}
        IN  [escalated |-> Cardinality({i \in of_g : rows[i].escalated}),
             not_escalated |-> Cardinality({i \in of_g : ~rows[i].escalated}),
             cases |-> Cardinality(of_g)]]

\* whether the cross-tabulation has a column True, which sort_values(True)
\* needs
HasTrueColumn(index, rows) ==
    \E i \in DOMAIN rows : rows[i].escalated /\ index[i] # ""

\* escalation_patterns: the cross-tabulation by case type (every row has a
\* case type) sorted by its column True, the age_group column, the
\* cross-tabulation by age group sorted by its column True
EscalationPatternsOf(rows) ==
    LET by_type == [i \in DOMAIN rows |-> "case_type"]
        groups  == [i \in DOMAIN rows |-> Cut(rows[i].age)]
    IN  IF ~HasTrueColumn(by_type, rows)
        THEN [outcome |-> "KeyError", age_group |-> <<>>, by_age_group |-> <<>>]
        ELSE IF ~HasTrueColumn(groups, rows)
        THEN [outcome |-> "KeyError", age_group |-> groups, by_age_group |-> <<>>]
        ELSE [outcome |-> "returned", age_group |-> groups,
              by_age_group |-> Crosstab(groups, rows)]

InitEsc ==
    /\ age_rows \in AgeTables
    /\ esc_outcome = "none"
    /\ age_group = <<>>
    /\ by_age_group = <<>>
    /\ SplitIdle
    /\ GenIdle
    /\ SeedIdle
    /\ FeIdle
    /\ RerunIdle
    /\ InsightIdle
    /\ CutIdle
    /\ DurIdle
    /\ FacIdle
    /\ ApiIdle
    /\ DashIdle

\* CaseInsights(data).escalation_patterns()
EscalationPatternsByAge ==
    /\ esc_outcome = "none"
    /\ LET r == EscalationPatternsOf(age_rows)
       IN  /\ esc_outcome' = r.outcome
           /\ age_group' = r.age_group
           /\ by_age_group' = r.by_age_group
    /\ UNCHANGED <<age_rows, escFrame>>

NextEsc == EscalationPatternsByAge

SpecEsc == InitEsc /\ [][NextEsc]_vars

\* the bucket the specification gives an age: below 30, from 30 up to 45,
\* from 45 up to 60, 60 and above
BucketOf(a) ==
    IF a < 30 THEN "<30"
    ELSE IF a < 45 THEN "30-45"
    ELSE IF a < 60 THEN "45-60"
    ELSE "60+"

\* C27: escalation_patterns returns a result for every table with the
\* columns escalated and case_type, also when no case is escalated; every
\* age is in the bucket '<30' (below 30), '30-45' (30 up to 45), '45-60'
\* (45 up to 60) or '60+' (60 and above); in every returned row the
\* escalated and the not-escalated rate sum to 1.
C27_AgeBucketsAndRates ==
    esc_outcome # "none" =>
        /\ esc_outcome = "returned"
        /\ DOMAIN age_group = DOMAIN age_rows
        /\ \A i \in DOMAIN age_rows : age_group[i] = BucketOf(age_rows[i].age)
        /\ \A g \in DOMAIN by_age_group :
              /\ by_age_group[g].cases > 0
              /\ by_age_group[g].escalated + by_age_group[g].not_escalated
                    = by_age_group[g].cases

(***************************************************************************)
(* The API server.  Two modules define it: api.py at the top of the        *)
(* repository, which loads or trains the model at startup, and             *)
(* src/api/api.py, the module app.py serves, which only builds the case    *)
(* data.  Of the training matrix the model keeps the column names and      *)
(* dtypes; of a table its origin, which fixes the columns it has; of a     *)
(* prediction the probability of class 1, in steps of 1 / ProbDen.         *)
(***************************************************************************)
ModelFile == "case_model.pkl"

MappingFile == "feature_mapping.json"

DataFile == "merged_data.csv"

SavedFiles == {ModelFile, MappingFile, DataFile}

\* the dtype of a .dt accessor column (month, year, dayofweek): int64 up to
\* pandas 1.x, int32 from pandas 2
DtDtypes == {"int32", "int64"}

\* X_train.columns of preprocess_data for the generator's tables: the
\* columns get_dummies leaves in place, in the order of the merge, then the
\* engineered ones, then the one-hot columns (one of each encoded column is
\* kept here); age, resolution_days and client_tenure_days come out of the
\* scaler as float64, escalated out of astype(int) as int64
TrainColumns(dt) ==
    <<[name |-> "resolution_days", dtype |-> "float64"],
      [name |-> "escalated", dtype |-> "int64"],
      [name |-> "name", dtype |-> "object"],
      [name |-> "age", dtype |-> "float64"],
      [name |-> "client_tenure_days", dtype |-> "float64"],
      [name |-> "month_opened", dtype |-> dt],
      [name |-> "case_type_Family Law", dtype |-> "bool"],
      [name |-> "complexity_Medium", dtype |-> "bool"],
      [name |-> "income_level_Medium", dtype |-> "bool"]>>

\* X_train.select_dtypes(include=['int64', 'float64']).columns
RECURSIVE NumericColumns(_)
NumericColumns(cols) ==
    IF cols = <<>> THEN <<>>
    ELSE IF Head(cols).dtype \in {"int64", "float64"}
    THEN <<Head(cols).name>> \o NumericColumns(Tail(cols))
    ELSE NumericColumns(Tail(cols))

\* train_evaluate_model: the forest is fitted on the numeric columns only
TrainEvaluateModel(cols) ==
    [loaded |-> TRUE, feature_names_in_ |-> NumericColumns(cols)]

\* {col: i for i, col in enumerate(X_train.columns)}
EnumerateColumns(cols) ==
    [name \in {cols[i].name : i \in DOMAIN cols} |->
        (CHOOSE i \in DOMAIN cols : cols[i].name = name) - 1]

\* np.where(feature_names == feature)[0][0]
IndexIn(names, feature) ==
    (CHOOSE i \in DOMAIN names : names[i] = feature) - 1

NamesOf(names) == {names[i] : i \in DOMAIN names}

\* raise HTTPException(status_code=..., detail=...)
HTTPException(status_code, detail) ==
    [status |-> status_code, detail |-> detail, body |-> NoBody]

\* str(e) of an HTTPException: "<status>: <detail>" where Starlette defines
\* __str__, the empty string where it does not
StatusString(status_code) ==
    CASE status_code = 400 -> "400"
      [] status_code = 500 -> "500"
      [] OTHER -> "200"

StrOfHTTPException(e) ==
    {<<>>, <<StatusString(e.status), ": ">> \o e.detail}

\* except Exception as e: raise HTTPException(500, f"<prefix>{str(e)}")
ReRaised(prefix, strs) ==
    {HTTPException(500, <<prefix>> \o s) : s \in strs}

InitApi ==
    /\ app_module \in {"api", "src.api.api"}
    /\ disk \in SUBSET SavedFiles
    /\ X_train \in {TrainColumns(dt) : dt \in DtDtypes}
    /\ started = "no"
    /\ model = NoModel
    /\ feature_mapping = EmptyMapping
    /\ merged_data = "None"
    /\ insights_agent = "None"
    /\ request = NoRequest
    /\ input_data = <<>>
    /\ response = NoResponse
    /\ SplitIdle
    /\ GenIdle
    /\ SeedIdle
    /\ FeIdle
    /\ RerunIdle
    /\ InsightIdle
    /\ CutIdle
    /\ DurIdle
    /\ FacIdle
    /\ EscIdle
    /\ DashIdle

\* api.py, startup_event: with a saved model the mapping and the data are
\* loaded only if their files exist; without one the data is generated, the
\* model trained and all three files written.  No exception is caught.
StartupEvent ==
    /\ app_module = "api"
    /\ started = "no"
    /\ IF ModelFile \in disk
       THEN /\ model' = TrainEvaluateModel(X_train)
            /\ feature_mapping' = IF MappingFile \in disk
                                  THEN EnumerateColumns(X_train)
                                  ELSE feature_mapping
            /\ merged_data' = IF DataFile \in disk THEN "read_csv"
                              ELSE merged_data
            /\ insights_agent' = IF DataFile \in disk THEN "read_csv"
                                 ELSE insights_agent
            /\ started' = "yes"
            /\ UNCHANGED disk
       ELSE \E generated \in BOOLEAN :
              IF generated
              THEN /\ model' = TrainEvaluateModel(X_train)
                   /\ disk' = SavedFiles
                   /\ merged_data' = "preprocess_data"
                   /\ insights_agent' = "preprocess_data"
                   /\ feature_mapping' = EnumerateColumns(X_train)
                   /\ started' = "yes"
              ELSE /\ started' = "failed"
                   /\ UNCHANGED <<model, disk, merged_data, insights_agent,
                                  feature_mapping>>
    /\ UNCHANGED <<app_module, X_train, request, input_data, response,
                   apiFrame>>

\* src/api/api.py, startup_event: the generated cases table, or the
\* hand-built table of ten cases when anything in the try block raised; the
\* model and the mapping are left as they are
StartupEventPackage ==
    /\ app_module = "src.api.api"
    /\ started = "no"
    /\ \E generated \in BOOLEAN :
         /\ merged_data' = IF generated THEN "generate_synthetic_data"
                           ELSE "minimal"
         /\ insights_agent' = IF generated THEN "generate_synthetic_data"
                              ELSE "minimal"
    /\ started' = "yes"
    /\ UNCHANGED <<app_module, disk, X_train, model, feature_mapping,
                   request, input_data, response, apiFrame>>

\* the well-formed bodies of POST /predict
PredictionRequests ==
    [endpoint : {"POST /predict"},
     case_type : {"Family Law", "Corporate"},
     complexity : {"Medium"},
     client_age : {35},
     client_income_level : {"Medium"},
     days_open : {None, 30},
     escalated : BOOLEAN]

\* input_data of predict: zeros, the numeric fields at the position of their
\* feature in model.feature_names_in_, a one at the position of each one-hot
\* feature named by a categorical field
InputData(m, req) ==
    [i \in DOMAIN m.feature_names_in_ |->
        LET feature == m.feature_names_in_[i]
        IN  CASE feature = "age" -> req.client_age
              [] feature = "escalated" -> IF req.escalated THEN 1 ELSE 0
              [] feature = "resolution_days" ->
                    IF req.days_open # None THEN req.days_open ELSE 0
              [] feature \in {"case_type_" \o req.case_type,
                              "complexity_" \o req.complexity,
                              "income_level_" \o req.client_income_level} -> 1
              [] OTHER -> 0]

\* the answer of predict for a probability p / ProbDen of class 1
PredictionResult(p) ==
    [status |-> 200, detail |-> <<>>,
     body |-> [prediction |-> IF 2 * p > ProbDen THEN "Resolved"
                              ELSE "Not Resolved",
               probability |-> p]]

\* predict, with on_disk saying whether the mapping file exists at the path
\* the module looks at
PredictOf(req, p, on_disk) ==
    LET mapping == IF feature_mapping = EmptyMapping /\ on_disk
                   THEN EnumerateColumns(X_train)
                   ELSE feature_mapping
    IN  /\ request' = req
        /\ IF model = NoModel
           THEN /\ response' = HTTPException(500, <<"Model not loaded">>)
                /\ UNCHANGED <<feature_mapping, input_data>>
           ELSE /\ feature_mapping' = mapping
                /\ IF mapping = EmptyMapping
                   THEN /\ response' \in
                             ReRaised("Prediction error: ",
                                StrOfHTTPException(HTTPException(500,
                                   <<"Feature mapping not available">>)))
                        /\ UNCHANGED input_data
                   ELSE /\ input_data' = InputData(model, req)
                        /\ response' = PredictionResult(p)
        /\ UNCHANGED <<app_module, disk, X_train, started, model,
                       merged_data, insights_agent, apiFrame>>

\* api.py, POST /predict
Predict ==
    /\ app_module = "api"
    /\ started = "yes"
    /\ \E req \in PredictionRequests, p \in 0..ProbDen :
         PredictOf(req, p, MappingFile \in disk)

\* src/api/api.py, POST /predict; the mapping is looked for under config/
PredictPackage ==
    /\ app_module = "src.api.api"
    /\ started = "yes"
    /\ \E req \in PredictionRequests, p \in 0..ProbDen :
         PredictOf(req, p, MappingFile \in disk)

KnownInsightTypes ==
    {"common_case_types", "resolution_factors", "assignee_performance"}

InsightTypes == KnownInsightTypes \cup {"escalation_patterns", ""}

\* whether the insight method returns a Series or DataFrame for the table
\* (the hand-built table has no resolution_days column, for which
\* resolution_factors returns a message string)
ReturnsFrame(table, insight_type) ==
    ~(table = "minimal" /\ insight_type = "resolution_factors")

\* POST /insights, the same in both modules: the HTTPException for an unknown
\* type is raised inside the try block and caught by except Exception, as is
\* the AttributeError of .to_dict() on a message string
GetInsights ==
    /\ started = "yes"
    /\ \E t \in InsightTypes :
         /\ request' = [endpoint |-> "POST /insights", insight_type |-> t]
         /\ IF insights_agent = "None"
            THEN response' =
                   HTTPException(500, <<"Insights agent not initialized">>)
            ELSE IF t \in KnownInsightTypes
            THEN IF ReturnsFrame(insights_agent, t)
                 THEN response' = [status |-> 200, detail |-> <<>>,
                                   body |-> [field \in {t} |-> insights_agent]]
                 ELSE response' \in
                        ReRaised("Error getting insights: ",
                           {<<"'str' object has no attribute 'to_dict'">>})
            ELSE response' \in
                   ReRaised("Error getting insights: ",
                      StrOfHTTPException(HTTPException(400,
                         <<"Unknown insight type: ", t>>)))
    /\ UNCHANGED <<app_module, disk, X_train, started, model,
                   feature_mapping, merged_data, insights_agent, input_data,
                   apiFrame>>

NextApi ==
    \/ StartupEvent
    \/ StartupEventPackage
    \/ Predict
    \/ PredictPackage
    \/ GetInsights

SpecApi == InitApi /\ [][NextApi]_vars

\* the value predict writes for a numeric feature of the request
NumericFields == {"age", "escalated", "resolution_days"}

FieldValue(req, feature) ==
    CASE feature = "age" -> req.client_age
      [] feature = "escalated" -> IF req.escalated THEN 1 ELSE 0
      [] OTHER -> IF req.days_open # None THEN req.days_open ELSE 0

\* C23: once the server has started and holds a model, the feature mapping
\* sends every feature name to the index of that column in the column order
\* the model was fitted on, and in the vector built for an answered
\* prediction every numeric field of the request stands at the position the
\* mapping gives its feature.
C23_MappingMatchesTrainingOrder ==
    (started = "yes" /\ model # NoModel) =>
        /\ \A name \in DOMAIN feature_mapping :
              /\ name \in NamesOf(model.feature_names_in_)
              /\ feature_mapping[name] =
                    IndexIn(model.feature_names_in_, name)
        /\ (request.endpoint = "POST /predict" /\ response.status = 200) =>
              \A feature \in NumericFields \cap DOMAIN feature_mapping :
                  /\ feature_mapping[feature] + 1 \in DOMAIN input_data
                  /\ input_data[feature_mapping[feature] + 1] =
                        FieldValue(request, feature)

\* C24: once startup has completed, a POST /predict with a well-formed case
\* is answered with status 200 and a body with the fields prediction and
\* probability, and never with 'Model not loaded'.
C24_PredictAnswered ==
    (started = "yes" /\ request.endpoint = "POST /predict") =>
        /\ response.status = 200
        /\ {"prediction", "probability"} \subseteq DOMAIN response.body
        /\ response.detail # <<"Model not loaded">>

\* C28: a POST /insights with an unknown insight type is answered with the
\* 400 'Unknown insight type' error exactly as raised, and a POST /predict
\* for which no feature mapping is available with the 'Feature mapping not
\* available' error exactly as raised.
C28_ErrorsReachClientUnchanged ==
    /\ (/\ request.endpoint = "POST /insights"
        /\ insights_agent # "None"
        /\ request.insight_type \notin KnownInsightTypes) =>
           response = HTTPException(400, <<"Unknown insight type: ",
                                           request.insight_type>>)
    /\ (/\ request.endpoint = "POST /predict"
        /\ model # NoModel
        /\ feature_mapping = EmptyMapping) =>
           response =
              HTTPException(500, <<"Feature mapping not available">>)

\* C29: after the startup handler has run, on every startup path, the case
\* data and the insights agent are set.
C29_DataSetAfterStartup ==
    started # "no" =>
        /\ merged_data # "None"
        /\ insights_agent # "None"

(***************************************************************************)
(* The dashboard's fetch_cases.  Of the API's answer the model keeps the   *)
(* status code and, of every record of the body, the open_date cell; of    *)
(* the returned table where it came from, the number of its rows and the   *)
(* converted open_date column.                                             *)
(***************************************************************************)
\* generate_mock_data(num_cases=100)
MockCases == 100

StatusCodes == {200, 404, 500}

\* an open_date cell of a record: a date string, null, or a string
\* pd.to_datetime cannot interpret
ReplyCells == {1, None, Unparseable}

ReplyData == UNION {[1..n -> ReplyCells] : n \in 0..MaxReplyRows}

\* requests.get raises, or answers with a status code and a JSON body
Replies ==
    {[raises |-> TRUE, status_code |-> 0, data |-> <<>>]}
    \cup [raises : {FALSE}, status_code : StatusCodes, data : ReplyData]

\* generate_mock_data(): a table of num_cases random cases
GenerateMockData ==
    [kind |-> "DataFrame", source |-> "generate_mock_data", n |-> MockCases,
     open_date |-> <<>>]

\* pd.DataFrame(data) with open_date through pd.to_datetime: null becomes
\* NaT
FrameOfReply(data) ==
    [kind |-> "DataFrame", source |-> "api", n |-> Len(data),
     open_date |-> [i \in DOMAIN data |->
                      IF data[i] = None THEN NaT ELSE data[i]]]

\* fetch_cases: the table of the API's records on status 200, mock data on
\* any other status and on any exception, that of requests.get and that of
\* pd.to_datetime alike
FetchCasesOf(r) ==
    IF r.raises THEN GenerateMockData
    ELSE IF r.status_code = 200
    THEN IF \E i \in DOMAIN r.data : r.data[i] = Unparseable
         THEN GenerateMockData
         ELSE FrameOfReply(r.data)
    ELSE GenerateMockData

InitDash ==
    /\ reply \in Replies
    /\ dash_op = "none"
    /\ fetched = NotFetched
    /\ SplitIdle
    /\ GenIdle
    /\ SeedIdle
    /\ FeIdle
    /\ RerunIdle
    /\ InsightIdle
    /\ CutIdle
    /\ DurIdle
    /\ FacIdle
    /\ EscIdle
    /\ ApiIdle

FetchCases ==
    /\ dash_op = "none"
    /\ dash_op' = "fetch_cases"
    /\ fetched' = FetchCasesOf(reply)
    /\ UNCHANGED <<reply, dashFrame>>

NextDash ==
    \/ FetchCases

SpecDash == InitDash /\ [][NextDash]_vars

\* C25: when the request to the API raises, fetch_cases returns None, and
\* when the API answers 200 it returns a DataFrame with one row per case of
\* the answer.
C25_NoneOnErrorFrameOnSuccess ==
    dash_op = "fetch_cases" =>
        /\ reply.raises => fetched.kind = "None"
        /\ (~reply.raises /\ reply.status_code = 200) =>
              /\ fetched.kind = "DataFrame"
              /\ fetched.n = Len(reply.data)

Init ==
    \/ InitSplit
    \/ InitGen
    \/ InitSeed
    \/ InitFe
    \/ InitRerun
    \/ InitInsights
    \/ InitCut
    \/ InitDur
    \/ InitFac
    \/ InitEsc
    \/ InitApi
    \/ InitDash

Next ==
    \/ NextSplit
    \/ NextGen
    \/ NextSeed
    \/ NextFe
    \/ NextRerun
    \/ NextInsights
    \/ NextCut
    \/ NextDur
    \/ NextFac
    \/ NextEsc
    \/ NextApi
    \/ NextDash

Spec == Init /\ [][Next]_vars
====
